---- MODULE Spec2Model ----
(***************************************************************************)
(* A model of the bank-statement converter's orchestration code:           *)
(*   - the waterfall dispatcher callAIUnified (services/geminiService.ts,  *)
(*     the revision with per-key retries), one step per await;             *)
(*   - the batch App (App.tsx, the revision with chunks);                  *)
(*   - the single-document App (App.tsx, the first revision).              *)
(* Each part has its own specification; the variables of the other parts   *)
(* stay at their initial values.                                           *)
(***************************************************************************)
EXTENDS Integers, Sequences, FiniteSets, TLC

\* ---------------------------------------------------------------- bounds
\* The largest number of API keys getAPIKeys is taken to return.
MaxKeys == 2

\* The most files the user has selected at a time.
MaxFiles == 2

\* The most chunks one extraction yields (pages of images plus groups of lines).
MaxChunks == 2

\* How many times the user clicks "Trich xuat" (handleExtractText) in a session.
MaxExtracts == 2

\* How many times the user clicks "Bat dau Xu ly" (handleSubmit) in a session.
MaxSubmits == 2

\* How many times the user starts handleExtractText or handleSubmit in a
\* session of the single-document App.
MaxCalls == 3

\* The most chunks a merge is given, and the most transactions of a chunk.
MaxMergeChunks == 2

MaxTx == 2

\* The most lines of text a splitting starts from, and the most image pages
\* before them.
MaxLines == 61

MaxImages == 1

\* The most descriptions of a text given to cleanAndParseJSON.
MaxDescs == 2

\* The messages of a request are at most
MaxMessages == 3

\* The rows of a table the user edits are among the first
MaxEditRows == 3

\* ------------------------------------------------------ program constants
MAX_KEY_ATTEMPTS == 3

\* modelsToTry = [PRO_MODEL, FLASH_MODEL]
modelsToTry == <<"pro", "flash">>

NModels == Len(modelsToTry)

VARIABLES
    \* --- callAIUnified
    keys,         \* keys.length, what getAPIKeys() returned
    d_pc,         \* "idle" | "awaiting" (callGoogleAI) | "delay" | "returned" | "threw"
    d_model,      \* index into modelsToTry of the for-of loop
    d_i,          \* the key loop's i, 1-based
    keyAttempts,  \* the retry loop's counter
    lastError,    \* the last caught error
    d_result,     \* the text callAIUnified returned
    d_thrown,     \* the error callAIUnified threw
    hung,         \* the provider will never answer the request in flight
    \* --- history of the dispatch (not program state)
    tries,        \* per (model, key): invocations of callGoogleAI made
    last,         \* per (model, key): how the latest invocation ended
    \* --- the batch App (App.tsx, the revision with chunks)
    b_files,          \* selectedFiles.length
    b_uploadState,    \* 'idle' | 'uploading' | 'completed'
    b_uploadProgress, \* uploadProgress
    b_uploadTimer,    \* the interval of uploadInterval.current is still scheduled
    b_loadingState,   \* 'idle' | 'extracting' | 'processing'
    b_chunks,         \* chunks: ProcessedChunk[]
    b_error,          \* error
    b_extracts,       \* handleExtractText invocations awaiting extractFromFile:
                      \*   the selectedFiles.length each one captured
    b_runs,           \* handleSubmit invocations, in the order they started:
                      \*   [sel: the selectedChunks snapshot, pos, pc]
    b_now,            \* Date.now(), one tick per extraction
    b_afterReset,     \* history: the last user action was a reset
    \* --- the single-document App (App.tsx, the first revision)
    a_files,            \* selectedFiles.length
    a_uploadState,      \* 'idle' | 'uploading' | 'completed'
    a_uploadProgress,   \* uploadProgress
    a_uploadTimer,      \* the interval of uploadInterval.current is still scheduled
    a_loadingState,     \* 'idle' | 'extracting' | 'processing'
    a_progress,         \* progress
    a_progressTimer,    \* the interval of progressInterval.current is still scheduled
    a_finishTimeouts,   \* pending setTimeout callbacks of finishProgress
    a_statementContent, \* "" | "typed" | "extracted"
    a_openingBalance,   \* "" | "typed" | "parsed"
    a_result,           \* result
    a_history,          \* history
    a_error,            \* error
    a_warning,          \* balanceMismatchWarning
    a_calls,            \* handleExtractText / handleSubmit invocations at an await:
                        \*   [kind, pc, loadingState: the value their closure holds]
    a_started,          \* how many of them were started
    a_afterCancel,      \* history: the last user action was handleCancel
    \* --- createTxSignature applied to two transactions
    s_a, s_b,           \* the transactions
    s_sig,              \* <<createTxSignature(s_a), createTxSignature(s_b)>> once computed
    \* --- handleMergeResults
    m_chunks,           \* chunks: [index, status, isCheckedForMerge, result]
    m_openingBalance,   \* openingBalance, the string of the input field
    m_mergedResult,     \* mergedResult
    m_warning,          \* balanceMismatchWarning
    m_isMergedView,     \* isMergedView
    \* --- the splitting of handleExtractText
    c_allLines,         \* allLines
    c_images,           \* how many image pages the files gave
    c_chunkStrategy,    \* chunkStrategy
    c_recommendedStrategy, \* recommendedStrategy
    c_chunks,           \* chunks
    c_split,            \* the splitting was done
    \* --- cleanAndParseJSON
    j_descs,            \* the descriptions the text was written from
    j_shape,            \* how the text differs from their JSON
    j_text,             \* text
    j_result,           \* what cleanAndParseJSON returned, or that it threw
    \* --- callGoogleAI
    t_messages,         \* config.messages
    t_request,          \* what generateContent is called with
    \* --- history of the results view (not program state)
    l_last              \* the user's last action and mergedResult before it

dvars == <<keys, d_pc, d_model, d_i, keyAttempts, lastError, d_result, d_thrown,
           hung, tries, last>>

bvars == <<b_files, b_uploadState, b_uploadProgress, b_uploadTimer, b_loadingState,
           b_chunks, b_error, b_extracts, b_runs, b_now,
           b_afterReset>>

avars == <<a_files, a_uploadState, a_uploadProgress, a_uploadTimer, a_loadingState,
           a_progress, a_progressTimer, a_finishTimeouts, a_statementContent,
           a_openingBalance, a_result, a_history, a_error, a_warning, a_calls,
           a_started, a_afterCancel>>

\* The variables of the specifications of single functions.
svars == <<s_a, s_b, s_sig>>

mvars == <<m_chunks, m_openingBalance, m_mergedResult, m_warning, m_isMergedView>>

cvars == <<c_allLines, c_images, c_chunkStrategy, c_recommendedStrategy, c_chunks, c_split>>

jvars == <<j_descs, j_shape, j_text, j_result>>

tvars == <<t_messages, t_request>>

lvars == <<l_last>>

pvars == <<svars, mvars, cvars, jvars, tvars, lvars>>

vars == <<dvars, bvars, avars, pvars>>

\* ------------------------------------------------------- error classes
\* What callGoogleAI can throw, by what the two substring tests of the catch
\* block say of String(err).toLowerCase(): the tests are independent, so a
\* message may match both lists ("429 ... limit: 1500") or neither (a 400).
ErrorClasses == {"net", "quota", "both", "fatal"}

\* errorMessage.includes('xhr error') || ... || includes('503') || includes('500')
isNetworkError(e) == e \in {"net", "both"}

\* errorMessage.includes('429') || 'resource exhausted' || 'too many requests' || 'quota'
isQuotaError(e) == e \in {"quota", "both"}

Pairs == (1..NModels) \X (1..MaxKeys)

\* The order of the nested loops: models outside, keys inside.
Before(p, q) == p[1] < q[1] \/ (p[1] = q[1] /\ p[2] < q[2])

NoError == [model |-> 0, key |-> 0, attempt |-> 0, class |-> "none"]

NoText == [model |-> 0, key |-> 0]

NotThrown == [kind |-> "none", last |-> NoError]

\* throw new Error("Chưa cấu hình API Key. ...")
NoKeyError == [kind |-> "NoKey", last |-> NoError]

\* (mutant) the final error without the last error.
ExhaustedErrorNoLast(le) == [kind |-> "AllFailed", last |-> NoError]

\* throw new Error(`Tất cả các Key & Model đều thất bại. ... Lỗi cuối cùng: ${lastError?.message ...}`)
ExhaustedError(le) == [kind |-> "AllFailed", last |-> le]

\* (mutant) the loops nested the other way round: keys outside, models inside.
NextPairKeysOutside(m, i) ==
    IF m < NModels THEN <<m + 1, i>>
    ELSE IF i < keys THEN <<1, i + 1>>
    ELSE <<0, 0>>

\* for (const model of modelsToTry) for (let i = 0; i < keys.length; i++):
\* the pair after (m, i), <<0, 0>> when both loops are over.
NextPair(m, i) ==
    IF i < keys THEN <<m, i + 1>>
    ELSE IF m < NModels THEN <<m + 1, 1>>
    ELSE <<0, 0>>

\* The catch block's first branch: retry this key after a backoff.
\* n is keyAttempts after the increment.
RetriesSameKey(e, n) == isNetworkError(e) /\ n < MAX_KEY_ATTEMPTS

\* return await callGoogleAI(currentKey, model, ...): one more invocation on (m, i).
Invoke(m, i) ==
    /\ d_pc' = "awaiting"
    /\ d_model' = m
    /\ d_i' = i
    /\ tries' = [tries EXCEPT ![<<m, i>>] = @ + 1]
    /\ last' = [last EXCEPT ![<<m, i>>] = "pending"]
    /\ hung' = FALSE

\* callAIUnified has not been called.
DispatchIdle ==
    /\ d_pc = "idle"
    /\ d_model = 0
    /\ d_i = 0
    /\ keyAttempts = 0
    /\ lastError = NoError
    /\ d_result = NoText
    /\ d_thrown = NotThrown
    /\ hung = FALSE
    /\ tries = [p \in Pairs |-> 0]
    /\ last = [p \in Pairs |-> "none"]

\* callAIUnified up to its first await.
callAIUnified ==
    /\ d_pc = "idle"
    /\ IF keys = 0
       THEN /\ d_pc' = "threw"
            /\ d_thrown' = NoKeyError
            /\ UNCHANGED <<d_model, d_i, tries, last, hung>>
       ELSE /\ Invoke(1, 1)
            /\ UNCHANGED d_thrown
    /\ keyAttempts' = 0
    /\ UNCHANGED <<keys, lastError, d_result>>

\* (mutant) the resolved call's text is dropped and the loops go on.
ResolveAndGoOn ==
    /\ d_pc = "awaiting"
    /\ ~hung
    /\ LET np == NextPair(d_model, d_i) IN
       IF np = <<0, 0>>
       THEN /\ d_pc' = "threw"
            /\ d_thrown' = ExhaustedError(lastError)
            /\ last' = [last EXCEPT ![<<d_model, d_i>>] = "ok"]
            /\ UNCHANGED <<d_model, d_i, tries, hung>>
       ELSE /\ d_pc' = "awaiting"
            /\ d_model' = np[1]
            /\ d_i' = np[2]
            /\ tries' = [tries EXCEPT ![np] = @ + 1]
            /\ last' = [last EXCEPT ![<<d_model, d_i>>] = "ok", ![np] = "pending"]
            /\ hung' = FALSE
            /\ UNCHANGED d_thrown
    /\ keyAttempts' = 0
    /\ UNCHANGED <<keys, lastError, d_result>>

\* callGoogleAI resolves: `return await callGoogleAI(...)` returns its text.
callGoogleAIResolves ==
    /\ d_pc = "awaiting"
    /\ ~hung
    /\ d_pc' = "returned"
    /\ d_result' = [model |-> d_model, key |-> d_i]
    /\ last' = [last EXCEPT ![<<d_model, d_i>>] = "ok"]
    /\ UNCHANGED <<keys, d_model, d_i, keyAttempts, lastError, d_thrown, hung, tries>>

\* callGoogleAI rejects with an error of class e: the catch block, up to the
\* next await (the backoff delay or the next invocation) or the final throw.
callGoogleAIRejects(e) ==
    /\ d_pc = "awaiting"
    /\ ~hung
    /\ lastError' = [model |-> d_model, key |-> d_i, attempt |-> keyAttempts + 1, class |-> e]
    /\ IF RetriesSameKey(e, keyAttempts + 1)
       THEN \* await delay(2000 * keyAttempts); continue
            /\ d_pc' = "delay"
            /\ keyAttempts' = keyAttempts + 1
            /\ last' = [last EXCEPT ![<<d_model, d_i>>] = e]
            /\ UNCHANGED <<d_model, d_i, d_thrown, tries, hung>>
       ELSE \* break: the next key, the next model, or the throw after the loops
            LET np == NextPair(d_model, d_i) IN
            IF np = <<0, 0>>
            THEN /\ d_pc' = "threw"
                 /\ d_thrown' = ExhaustedError(lastError')
                 /\ keyAttempts' = keyAttempts + 1
                 /\ last' = [last EXCEPT ![<<d_model, d_i>>] = e]
                 /\ UNCHANGED <<d_model, d_i, tries, hung>>
            ELSE /\ d_pc' = "awaiting"
                 /\ d_model' = np[1]
                 /\ d_i' = np[2]
                 /\ keyAttempts' = 0
                 /\ tries' = [tries EXCEPT ![np] = @ + 1]
                 /\ last' = [last EXCEPT ![<<d_model, d_i>>] = e, ![np] = "pending"]
                 /\ hung' = FALSE
                 /\ UNCHANGED d_thrown
    /\ UNCHANGED <<keys, d_result>>

\* The backoff delay is over: the while loop calls callGoogleAI again.
BackoffElapses ==
    /\ d_pc = "delay"
    /\ Invoke(d_model, d_i)
    /\ UNCHANGED <<keys, keyAttempts, lastError, d_result, d_thrown>>

\* The provider never answers the request in flight. callGoogleAI awaits
\* ai.models.generateContent with no timer and no abort signal.
ProviderNeverResponds ==
    /\ d_pc = "awaiting"
    /\ ~hung
    /\ hung' = TRUE
    /\ UNCHANGED <<keys, d_pc, d_model, d_i, keyAttempts, lastError, d_result,
                   d_thrown, tries, last>>


\* ------------------------------------------------------------------------
\* The batch App: App.tsx, the revision with chunks (lines 595-1390)
\* ------------------------------------------------------------------------
\* One action per handler segment between two awaits; the setState calls of a
\* segment are applied together, functional updaters on the current state.
\* processingStatus, activeKeyInfo, globalProgress and the expand flags only
\* feed labels and the progress bar and are left out. A guard of an action is
\* what disables the control (a disabled attribute, an early return); the
\* class pointer-events-none of the controls column stops the mouse only, the
\* keyboard still reaches the controls, so it guards nothing.

\* What the awaited processStatement / extractTextFromContent can end with:
\* a value, or a throw (every key and model failed; output that
\* cleanAndParseJSON cannot repair).
Outcomes == {"ok", "exhausted", "malformed"}

\* const isLoading = loadingState !== 'idle'
b_isLoading == b_loadingState # "idle"

SeqToSet(q) == {q[k] : k \in 1..Len(q)}

RemoveAt(q, k) == [n \in 1..(Len(q) - 1) |-> IF n < k THEN q[n] ELSE q[n + 1]]

\* setChunks(prev => prev.map(c => c.id === id ? f(c) : c))
MapById(chs, id, F(_)) == [k \in 1..Len(chs) |-> IF chs[k].id = id THEN F(chs[k]) ELSE chs[k]]

\* What handleExtractText builds from the extraction results: pages[f] images
\* of file f (ids `img-${Date.now()}-${idx}`, idx counted inside the file),
\* then nText groups of lines (ids `txt-${Date.now()}-${i}`); the loops are
\* synchronous, so Date.now() is the same throughout.
NewChunk(kind, ms, idx) ==
    [id |-> <<kind, ms, idx>>, index |-> 0, type |-> kind, isSelected |-> TRUE,
     status |-> "idle", result |-> "none", error |-> "none", isCheckedForMerge |-> TRUE]

RECURSIVE ImageChunks(_, _)
ImageChunks(pages, ms) ==
    IF pages = <<>> THEN <<>>
    ELSE [k \in 1..Head(pages) |-> NewChunk("image", ms, k - 1)] \o ImageChunks(Tail(pages), ms)

TextChunks(nText, ms) == [k \in 1..nText |-> NewChunk("text", ms, k - 1)]

\* [...imageChunks, ...textChunks].map((c, i) => ({ ...c, index: i + 1 }))
FinalChunks(pages, nText, ms) ==
    LET all == ImageChunks(pages, ms) \o TextChunks(nText, ms)
    IN [k \in 1..Len(all) |-> [all[k] EXCEPT !.index = k]]

RECURSIVE SumSeq(_)
SumSeq(q) == IF q = <<>> THEN 0 ELSE Head(q) + SumSeq(Tail(q))

\* The extraction results n files can give, up to MaxChunks chunks: a file
\* gives images or text (a file with images contributes no text lines).
Extractions(n) ==
    {x \in [pages : [1..n -> 0..MaxChunks], nText : 0..MaxChunks] :
        /\ SumSeq(x.pages) + x.nText <= MaxChunks
        /\ x.nText > 0 => \E f \in 1..n : x.pages[f] = 0}

b_resetState ==
    /\ b_chunks' = <<>>
    /\ b_error' = "none"
    /\ b_loadingState' = "idle"

\* simulateUploadProcess: the previous interval is cleared, a new one set.
b_simulateUploadProcess ==
    /\ b_uploadState' = "uploading"
    /\ b_uploadProgress' = 0
    /\ b_uploadTimer' = TRUE

BatchStart ==
    /\ b_files = 0
    /\ b_uploadState = "idle"
    /\ b_uploadProgress = 0
    /\ b_uploadTimer = FALSE
    /\ b_loadingState = "idle"
    /\ b_chunks = <<>>
    /\ b_error = "none"
    /\ b_extracts = <<>>
    /\ b_runs = <<>>
    /\ b_now = 0
    /\ b_afterReset = FALSE

\* The user picks n files.
b_handleFileChange(n) ==
    /\ b_files + n <= MaxFiles
    /\ b_resetState
    /\ b_files' = b_files + n
    /\ b_simulateUploadProcess
    /\ b_afterReset' = FALSE
    /\ UNCHANGED <<b_extracts, b_runs, b_now>>

\* The user removes a file; removing the last one resets.
b_handleRemoveFile ==
    /\ b_files > 0
    /\ b_files' = b_files - 1
    /\ IF b_files' = 0
       THEN /\ b_resetState
            /\ b_uploadState' = "idle"
            /\ b_uploadProgress' = 0
            /\ b_afterReset' = TRUE
       ELSE /\ UNCHANGED <<b_chunks, b_error, b_loadingState, b_uploadState, b_uploadProgress>>
            /\ b_afterReset' = FALSE
    /\ UNCHANGED <<b_uploadTimer, b_extracts, b_runs, b_now>>

\* The callback of the upload interval.
b_uploadTick ==
    /\ b_uploadTimer
    /\ IF b_uploadProgress >= 100
       THEN /\ b_uploadTimer' = FALSE
            /\ b_uploadState' = "completed"
            /\ b_uploadProgress' = 100
       ELSE /\ b_uploadProgress' = b_uploadProgress + 15
            /\ UNCHANGED <<b_uploadTimer, b_uploadState>>
    /\ UNCHANGED <<b_files, b_loadingState, b_chunks, b_error,
                   b_extracts, b_runs, b_now, b_afterReset>>

\* toggleChunkSelection(id)
b_toggleChunkSelection(k) ==
    /\ k \in 1..Len(b_chunks)
    /\ LET Flip(c) == [c EXCEPT !.isSelected = ~c.isSelected]
       IN b_chunks' = MapById(b_chunks, b_chunks[k].id, Flip)
    /\ b_afterReset' = FALSE
    /\ UNCHANGED <<b_files, b_uploadState, b_uploadProgress, b_uploadTimer, b_loadingState,
                   b_error, b_extracts, b_runs, b_now>>

\* handleExtractText up to `await Promise.all(extractionPromises)`.
b_handleExtractText ==
    /\ b_loadingState # "extracting"          \* the button's disabled attribute
    /\ Len(b_extracts) + b_now < MaxExtracts
    /\ b_files > 0                            \* disabled={selectedFiles.length === 0 || ...}
    /\ b_afterReset' = FALSE
    /\ b_loadingState' = "extracting"
    /\ b_error' = "none"
    /\ b_extracts' = Append(b_extracts, b_files)
    /\ UNCHANGED <<b_files, b_uploadState, b_uploadProgress, b_uploadTimer, b_chunks,
                   b_runs, b_now>>

\* The extraction of invocation e resolves with x: the chunks are built and
\* stored; finally { setLoadingState('idle') }.
b_extractResolves(e, x) ==
    /\ b_now' = b_now + 1
    /\ b_chunks' = FinalChunks(x.pages, x.nText, b_now')
    /\ b_loadingState' = "idle"
    /\ b_extracts' = RemoveAt(b_extracts, e)
    /\ UNCHANGED <<b_files, b_uploadState, b_uploadProgress, b_uploadTimer, b_error,
                   b_runs, b_afterReset>>

\* The extraction of invocation e rejects: catch { setError } finally { idle }.
b_extractRejects(e) ==
    /\ e \in 1..Len(b_extracts)
    /\ b_now' = b_now + 1
    /\ b_error' = "extract"
    /\ b_loadingState' = "idle"
    /\ b_extracts' = RemoveAt(b_extracts, e)
    /\ UNCHANGED <<b_files, b_uploadState, b_uploadProgress, b_uploadTimer, b_chunks,
                   b_runs, b_afterReset>>


\* (mutant) every chunk is reset, selected or not.
ResetEvery(chs) ==
    [k \in 1..Len(chs) |->
        [chs[k] EXCEPT !.status = "idle", !.result = "none", !.error = "none",
                       !.isCheckedForMerge = TRUE]]

\* `Reset status`: every selected chunk back to idle, its result and error cleared.
ResetSelected(chs) ==
    [k \in 1..Len(chs) |->
        IF chs[k].isSelected
        THEN [chs[k] EXCEPT !.status = "idle", !.result = "none", !.error = "none",
                            !.isCheckedForMerge = TRUE]
        ELSE chs[k]]

\* The head of a loop iteration: setChunks(... status: 'processing').
MarkProcessing(chs, id) ==
    LET F(c) == [c EXCEPT !.status = "processing"] IN MapById(chs, id, F)

\* After the awaits of the try block: status 'completed' and the result.
ChunkCompleted(chs, id) ==
    LET F(c) == [c EXCEPT !.status = "completed", !.result = "resp"] IN MapById(chs, id, F)

\* (mutant) the catch block records the message and leaves the status alone.
ChunkFailedNoStatus(chs, id) ==
    LET F(c) == [c EXCEPT !.error = "msg"] IN MapById(chs, id, F)

\* The catch block: status 'error' and err.message || "Lỗi xử lý".
ChunkFailed(chs, id) ==
    LET F(c) == [c EXCEPT !.status = "error", !.error = "msg"] IN MapById(chs, id, F)

\* What the iteration on chunk c awaits first: processStatement for a text
\* chunk, extractTextFromContent (OCR) for an image chunk.
FirstAwait(c) == IF c.type = "text" THEN "process" ELSE "ocr"

\* The runs with a request in flight (an awaited OCR or processStatement call).
InFlight == {r \in 1..Len(b_runs) : b_runs[r].pc \in {"ocr", "process"}}

\* What the loop reads of a chunk of its selectedChunks snapshot.
Snapshot(q) == [k \in 1..Len(q) |-> [id |-> q[k].id, index |-> q[k].index, type |-> q[k].type]]

\* handleSubmit up to its first await.
b_handleSubmit ==
    /\ ~b_isLoading /\ Len(b_chunks) > 0      \* disabled={isLoading || chunks.length === 0}
    /\ Len(b_runs) < MaxSubmits
    /\ b_afterReset' = FALSE
    /\ LET IsSel(c) == c.isSelected
           selectedChunks == SelectSeq(b_chunks, IsSel)
       IN IF selectedChunks = <<>>
          THEN /\ b_error' = "noSelection"
               /\ UNCHANGED <<b_loadingState, b_chunks, b_runs>>
          ELSE /\ b_loadingState' = "processing"
               /\ b_error' = "none"
               /\ b_chunks' = MarkProcessing(ResetSelected(b_chunks), selectedChunks[1].id)
               /\ b_runs' = Append(b_runs, [sel |-> Snapshot(selectedChunks), pos |-> 1,
                                            pc |-> FirstAwait(selectedChunks[1])])
    /\ UNCHANGED <<b_files, b_uploadState, b_uploadProgress, b_uploadTimer, b_extracts, b_now>>

\* extractTextFromContent resolves in run r: processStatement is called on the text.
b_ocrResolves(r) ==
    /\ r \in 1..Len(b_runs)
    /\ b_runs[r].pc = "ocr"
    /\ b_runs' = [b_runs EXCEPT ![r].pc = "process"]
    /\ UNCHANGED <<b_files, b_uploadState, b_uploadProgress, b_uploadTimer, b_loadingState,
                   b_chunks, b_error, b_extracts, b_now, b_afterReset>>

\* The awaited call of run r settles with o (a throw, or processStatement's
\* value): the rest of the iteration, then the head of the next one up to its
\* await, or the end of handleSubmit.
b_chunkSettles(r, o) ==
    /\ r \in 1..Len(b_runs)
    /\ \/ b_runs[r].pc = "process"
       \/ b_runs[r].pc = "ocr" /\ o = "exhausted"
    /\ LET run == b_runs[r]
           chunk == run.sel[run.pos]
           total == Len(run.sel)
           settled == IF o = "ok" THEN ChunkCompleted(b_chunks, chunk.id)
                      ELSE ChunkFailed(b_chunks, chunk.id)
       IN IF run.pos < total
          THEN /\ b_chunks' = MarkProcessing(settled, run.sel[run.pos + 1].id)
               /\ b_runs' = [b_runs EXCEPT ![r].pos = run.pos + 1,
                                           ![r].pc = FirstAwait(run.sel[run.pos + 1])]
               /\ UNCHANGED b_loadingState
          ELSE /\ b_chunks' = settled
               /\ b_runs' = [b_runs EXCEPT ![r].pc = "done"]
               /\ b_loadingState' = "idle"
    /\ UNCHANGED <<b_files, b_uploadState, b_uploadProgress, b_uploadTimer, b_error,
                   b_extracts, b_now, b_afterReset>>

\* ------------------------------------------------------------------------
\* The single-document App: App.tsx, the first revision (lines 14-593)
\* ------------------------------------------------------------------------
\* An async handler reads `loadingState` from its closure: the value of the
\* render in which it was called, whatever setLoadingState did since.

\* progress is a real number; the model keeps 0, a value in between, 95 (where
\* the interval stops) and 100 (finishProgress).
ProgressLevels == {0, 50, 95}

\* The state after the first render, the statement content apart.
SingleIdle ==
    /\ a_files = 0
    /\ a_uploadState = "idle"
    /\ a_uploadProgress = 0
    /\ a_uploadTimer = FALSE
    /\ a_loadingState = "idle"
    /\ a_progress = 0
    /\ a_progressTimer = FALSE
    /\ a_finishTimeouts = 0
    /\ a_openingBalance = ""
    /\ a_result = "none"
    /\ a_history = <<>>
    /\ a_error = "none"
    /\ a_warning = "none"
    /\ a_calls = <<>>
    /\ a_started = 0
    /\ a_afterCancel = FALSE

SingleStart == SingleIdle /\ a_statementContent = ""

a_isLoading == a_loadingState # "idle"

\* handleFileChange with n files picked.
a_handleFileChange(n) ==
    /\ a_files + n <= MaxFiles
    /\ a_result' = "none"
    /\ a_statementContent' = ""
    /\ a_warning' = "none"
    /\ a_error' = "none"
    /\ a_loadingState' = "idle"
    /\ a_files' = a_files + n
    /\ a_uploadState' = "uploading"           \* simulateUploadProcess
    /\ a_uploadProgress' = 0
    /\ a_uploadTimer' = TRUE
    /\ a_afterCancel' = FALSE
    /\ UNCHANGED <<a_progress, a_progressTimer, a_finishTimeouts, a_openingBalance,
                   a_history, a_calls, a_started>>

a_handleRemoveFile ==
    /\ a_files > 0
    /\ a_files' = a_files - 1
    /\ IF a_files' = 0
       THEN a_uploadState' = "idle" /\ a_uploadProgress' = 0
       ELSE UNCHANGED <<a_uploadState, a_uploadProgress>>
    /\ a_result' = "none"
    /\ a_statementContent' = ""
    /\ a_afterCancel' = FALSE
    /\ UNCHANGED <<a_uploadTimer, a_loadingState, a_progress, a_progressTimer,
                   a_finishTimeouts, a_openingBalance, a_history, a_error, a_warning,
                   a_calls, a_started>>

\* The callback of the upload interval.
a_uploadTick ==
    /\ a_uploadTimer
    /\ IF a_uploadProgress >= 100
       THEN /\ a_uploadTimer' = FALSE
            /\ a_uploadState' = "completed"
            /\ a_uploadProgress' = 100
       ELSE /\ a_uploadProgress' = a_uploadProgress + 15
            /\ UNCHANGED <<a_uploadTimer, a_uploadState>>
    /\ UNCHANGED <<a_files, a_loadingState, a_progress, a_progressTimer, a_finishTimeouts,
                   a_statementContent, a_openingBalance, a_result, a_history, a_error,
                   a_warning, a_calls, a_started, a_afterCancel>>

\* handleCancel: both intervals cleared, every state variable back to its
\* initial value. The calls in flight and the timeouts of finishProgress stay.
a_handleCancel ==
    /\ a_progressTimer' = FALSE
    /\ a_uploadTimer' = FALSE
    /\ a_loadingState' = "idle"
    /\ a_uploadState' = "idle"
    /\ a_progress' = 0
    /\ a_uploadProgress' = 0
    /\ a_files' = 0
    /\ a_statementContent' = ""
    /\ a_openingBalance' = ""
    /\ a_result' = "none"
    /\ a_history' = <<>>
    /\ a_error' = "none"
    /\ a_warning' = "none"
    /\ a_afterCancel' = TRUE
    /\ UNCHANGED <<a_finishTimeouts, a_calls, a_started>>

\* The user types in the statement textarea.
a_editStatement ==
    /\ a_statementContent' = "typed"
    /\ a_afterCancel' = FALSE
    /\ UNCHANGED <<a_files, a_uploadState, a_uploadProgress, a_uploadTimer, a_loadingState,
                   a_progress, a_progressTimer, a_finishTimeouts, a_openingBalance,
                   a_result, a_history, a_error, a_warning, a_calls, a_started>>

\* startProgress: progress 0, the previous interval cleared, a new one set.
a_startProgress ==
    /\ a_progress' = 0
    /\ a_progressTimer' = TRUE

\* The callback of the progress interval.
a_progressTick ==
    /\ a_progressTimer
    /\ IF a_progress >= 95
       THEN a_progressTimer' = FALSE /\ a_progress' = 95
       ELSE /\ a_progress' \in {p \in ProgressLevels : p >= a_progress /\ p <= a_progress + 50}
            /\ UNCHANGED a_progressTimer
    /\ UNCHANGED <<a_files, a_uploadState, a_uploadProgress, a_uploadTimer, a_loadingState,
                   a_finishTimeouts, a_statementContent, a_openingBalance, a_result,
                   a_history, a_error, a_warning, a_calls, a_started, a_afterCancel>>

\* finishProgress: the interval cleared, progress 100, a timeout of 500 ms set.
a_finishProgress ==
    /\ a_progressTimer' = FALSE
    /\ a_progress' = 100
    /\ a_finishTimeouts' = a_finishTimeouts + 1

\* The callback of finishProgress's timeout.
a_finishTimeout ==
    /\ a_finishTimeouts > 0
    /\ a_finishTimeouts' = a_finishTimeouts - 1
    /\ a_loadingState' = "idle"
    /\ a_progress' = 0
    /\ UNCHANGED <<a_files, a_uploadState, a_uploadProgress, a_uploadTimer, a_progressTimer,
                   a_statementContent, a_openingBalance, a_result, a_history, a_error,
                   a_warning, a_calls, a_started, a_afterCancel>>

\* What the files of an extraction hold: text only, images (a second await,
\* extractTextFromContent, follows), or nothing readable.
FileContents == {"text", "images", "nothing"}

\* The finally block of handleExtractText, loadingState read from the closure.
a_extractFinally(loadingState) ==
    IF loadingState # "idle"
    THEN a_finishProgress /\ a_loadingState' = "idle"
    ELSE UNCHANGED <<a_progressTimer, a_progress, a_finishTimeouts, a_loadingState>>

\* handleExtractText up to `await Promise.all(extractionPromises)`.
a_handleExtractText ==
    /\ a_files > 0 /\ a_loadingState # "extracting"    \* the button's disabled attribute
    /\ a_started < MaxCalls
    /\ a_loadingState' = "extracting"
    /\ a_error' = "none"
    /\ a_startProgress
    /\ a_calls' = Append(a_calls, [kind |-> "extract", pc |-> "files",
                                   loadingState |-> a_loadingState])
    /\ a_started' = a_started + 1
    /\ a_afterCancel' = FALSE
    /\ UNCHANGED <<a_files, a_uploadState, a_uploadProgress, a_uploadTimer, a_finishTimeouts,
                   a_statementContent, a_openingBalance, a_result, a_history, a_warning>>

\* Promise.all resolves in call c with contents x.
a_extractResolves(c, x) ==
    /\ a_calls[c].kind = "extract" /\ a_calls[c].pc = "files"
    /\ IF x = "images"
       THEN /\ a_calls' = [a_calls EXCEPT ![c].pc = "ocr"]
            /\ UNCHANGED <<a_statementContent, a_progressTimer, a_progress,
                           a_finishTimeouts, a_loadingState>>
       ELSE /\ a_statementContent' = IF x = "text" THEN "extracted" ELSE ""
            /\ a_extractFinally(a_calls[c].loadingState)
            /\ a_calls' = RemoveAt(a_calls, c)
    /\ UNCHANGED <<a_files, a_uploadState, a_uploadProgress, a_uploadTimer, a_openingBalance,
                   a_result, a_history, a_error, a_warning, a_started, a_afterCancel>>

\* extractTextFromContent resolves in call c.
a_ocrResolves(c) ==
    /\ a_calls[c].kind = "extract" /\ a_calls[c].pc = "ocr"
    /\ a_statementContent' = "extracted"
    /\ a_extractFinally(a_calls[c].loadingState)
    /\ a_calls' = RemoveAt(a_calls, c)
    /\ UNCHANGED <<a_files, a_uploadState, a_uploadProgress, a_uploadTimer, a_openingBalance,
                   a_result, a_history, a_error, a_warning, a_started, a_afterCancel>>

\* An await of call c (handleExtractText) rejects: catch, then finally.
a_extractRejects(c) ==
    /\ a_calls[c].kind = "extract"
    /\ a_error' = IF a_calls[c].loadingState = "idle" THEN a_error ELSE "extract"
    /\ a_extractFinally(a_calls[c].loadingState)
    /\ a_calls' = RemoveAt(a_calls, c)
    /\ UNCHANGED <<a_files, a_uploadState, a_uploadProgress, a_uploadTimer,
                   a_statementContent, a_openingBalance, a_result, a_history, a_warning,
                   a_started, a_afterCancel>>

\* The finally block of handleSubmit.
a_submitFinally(loadingState) ==
    IF loadingState # "idle"
    THEN a_finishProgress
    ELSE UNCHANGED <<a_progressTimer, a_progress, a_finishTimeouts>>

\* handleSubmit up to `await processStatement(...)`.
a_handleSubmit ==
    /\ ~a_isLoading /\ a_statementContent # ""    \* disabled={isLoading || !statementContent}
    /\ a_started < MaxCalls
    /\ a_loadingState' = "processing"
    /\ a_error' = "none"
    /\ a_result' = "none"
    /\ a_warning' = "none"
    /\ a_history' = <<>>
    /\ a_startProgress
    /\ a_calls' = Append(a_calls, [kind |-> "submit", pc |-> "process",
                                   loadingState |-> a_loadingState])
    /\ a_started' = a_started + 1
    /\ a_afterCancel' = FALSE
    /\ UNCHANGED <<a_files, a_uploadState, a_uploadProgress, a_uploadTimer, a_finishTimeouts,
                   a_statementContent, a_openingBalance>>

\* processStatement resolves in call c; mismatch: the balance cross-check fails.
a_submitResolves(c, mismatch) ==
    /\ a_calls[c].kind = "submit"
    /\ IF a_calls[c].loadingState = "idle"
       THEN UNCHANGED <<a_openingBalance, a_result, a_history, a_warning>>
       ELSE /\ a_openingBalance' = "parsed"
            /\ a_result' = "data"
            /\ a_history' = <<"data">>
            /\ a_warning' = IF mismatch THEN "mismatch" ELSE a_warning
    /\ a_submitFinally(a_calls[c].loadingState)
    /\ a_calls' = RemoveAt(a_calls, c)
    /\ UNCHANGED <<a_files, a_uploadState, a_uploadProgress, a_uploadTimer, a_loadingState,
                   a_statementContent, a_error, a_started, a_afterCancel>>

\* processStatement rejects in call c.
a_submitRejects(c) ==
    /\ a_calls[c].kind = "submit"
    /\ a_error' = IF a_calls[c].loadingState = "idle" THEN a_error ELSE "process"
    /\ a_submitFinally(a_calls[c].loadingState)
    /\ a_calls' = RemoveAt(a_calls, c)
    /\ UNCHANGED <<a_files, a_uploadState, a_uploadProgress, a_uploadTimer, a_loadingState,
                   a_statementContent, a_openingBalance, a_result, a_history, a_warning,
                   a_started, a_afterCancel>>

\* ------------------------------------------------------------------------
\* Strings
\* ------------------------------------------------------------------------
\* A string is the sequence of its characters.

RECURSIVE Repeat(_, _)
Repeat(c, n) == IF n = 0 THEN <<>> ELSE <<c>> \o Repeat(c, n - 1)

\* String.prototype.toLowerCase, on the letters the model uses.
LowerChar(c) ==
    CASE c = "A" -> "a" [] c = "B" -> "b" [] c = "X" -> "x" [] c = "T" -> "t"
      [] c = "S" -> "s" [] c = "C" -> "c"
      [] OTHER -> c

toLowerCase(str) == [k \in 1..Len(str) |-> LowerChar(str[k])]

IsSpace(c) == c \in {" ", "\t", "\r", "\n"}

\* replace(/\s/g, '')
RECURSIVE StripSpaces(_)
StripSpaces(str) ==
    IF str = <<>> THEN <<>>
    ELSE IF IsSpace(Head(str)) THEN StripSpaces(Tail(str))
    ELSE <<Head(str)>> \o StripSpaces(Tail(str))

\* substring(0, n)
substring0(str, n) == SubSeq(str, 1, IF Len(str) < n THEN Len(str) ELSE n)

RECURSIVE TrimStart(_)
TrimStart(str) ==
    IF str # <<>> /\ IsSpace(Head(str)) THEN TrimStart(Tail(str)) ELSE str

RECURSIVE TrimEnd(_)
TrimEnd(str) ==
    IF str # <<>> /\ IsSpace(str[Len(str)]) THEN TrimEnd(SubSeq(str, 1, Len(str) - 1)) ELSE str

\* String.prototype.trim
trim(str) == TrimEnd(TrimStart(str))

Digit(d) == CASE d = 0 -> "0" [] d = 1 -> "1" [] d = 2 -> "2" [] d = 3 -> "3" [] d = 4 -> "4"
              [] d = 5 -> "5" [] d = 6 -> "6" [] d = 7 -> "7" [] d = 8 -> "8" [] d = 9 -> "9"

\* `${n}` of a natural number.
RECURSIVE NumberToString(_)
NumberToString(n) ==
    IF n < 10 THEN <<Digit(n)>> ELSE NumberToString(n \div 10) \o <<Digit(n % 10)>>

\* ------------------------------------------------------------------------
\* createTxSignature (App.tsx, handleMergeResults)
\* ------------------------------------------------------------------------
\* A transaction: [date, debit, credit, transactionCode, description]; an
\* absent transactionCode is the empty string (both are falsy).

DESC_PREFIX == 30

nodesc == <<"n", "o", "d", "e", "s", "c">>

normalizedDesc(tx) ==
    IF tx.description # <<>>
    THEN substring0(StripSpaces(toLowerCase(tx.description)), DESC_PREFIX)
    ELSE nodesc

normalizedCode(tx) ==
    IF tx.transactionCode # <<>>
    THEN toLowerCase(trim(tx.transactionCode))
    ELSE normalizedDesc(tx)

\* `${tx.date}|${tx.debit}|${tx.credit}|${normalizedCode}`
createTxSignature(tx) ==
    tx.date \o <<"|">> \o NumberToString(tx.debit) \o <<"|">> \o NumberToString(tx.credit)
        \o <<"|">> \o normalizedCode(tx)

\* The transactions the signature is computed on: dates and codes with and
\* without the separator, codes with blanks and capitals, descriptions that
\* differ in case, in blanks, after the 30th character, or are empty.
SigDates == {<<"1">>, <<"1", "|", "2">>}

SigCodes == {<<>>, <<"x">>, <<" ", "X">>, <<"0", "|", "x">>}

SigDescs == {<<>>, nodesc, <<"A", " ", "b">>, <<"a", "b">>,
             Repeat("a", DESC_PREFIX) \o <<"b">>, Repeat("a", DESC_PREFIX) \o <<"x">>}

SigTxs == [date : SigDates, debit : {2, 3}, credit : {0, 3}, transactionCode : SigCodes,
           description : SigDescs]

NoSig == <<"none">>

SignatureIdle == s_a = NoSig /\ s_b = NoSig /\ s_sig = NoSig

\* createTxSignature is applied to both transactions.
s_createTxSignature ==
    /\ s_sig = NoSig
    /\ s_sig' = <<createTxSignature(s_a), createTxSignature(s_b)>>
    /\ UNCHANGED <<s_a, s_b>>

\* ------------------------------------------------------------------------
\* handleMergeResults (App.tsx, the revision with chunks)
\* ------------------------------------------------------------------------

\* A number that may be NaN: <<>> is NaN, <<n>> the number n.
NaN == <<>>

Num(n) == <<n>>

IsDigit(c) == c \in {"0", "1", "2", "3", "4", "5", "6", "7", "8", "9"}

DigitVal(c) == CASE c = "0" -> 0 [] c = "1" -> 1 [] c = "2" -> 2 [] c = "3" -> 3 [] c = "4" -> 4
                 [] c = "5" -> 5 [] c = "6" -> 6 [] c = "7" -> 7 [] c = "8" -> 8 [] c = "9" -> 9

RECURSIVE LeadingDigits(_, _)
LeadingDigits(str, acc) ==
    IF str # <<>> /\ IsDigit(Head(str))
    THEN LeadingDigits(Tail(str), 10 * acc + DigitVal(Head(str)))
    ELSE acc

\* parseInt / parseFloat of a string without sign, point or exponent: the
\* leading blanks are skipped, the leading digits are the value, NaN without one.
parseInt(str) ==
    LET t == TrimStart(str)
    IN IF t # <<>> /\ IsDigit(Head(t)) THEN Num(LeadingDigits(t, 0)) ELSE NaN

\* str.split(sep), sep one character.
RECURSIVE SplitFrom(_, _, _)
SplitFrom(str, sep, cur) ==
    IF str = <<>> THEN <<cur>>
    ELSE IF Head(str) = sep THEN <<cur>> \o SplitFrom(Tail(str), sep, <<>>)
    ELSE SplitFrom(Tail(str), sep, Append(cur, Head(str)))

split(str, sep) == SplitFrom(str, sep, <<>>)

\* str.includes(sub)
includes(str, sub) ==
    \E k \in 0..(Len(str) - Len(sub)) : SubSeq(str, k + 1, k + Len(sub)) = sub

\* replace(/\./g, '')
RECURSIVE StripDots(_)
StripDots(str) ==
    IF str = <<>> THEN <<>>
    ELSE IF Head(str) = "." THEN StripDots(Tail(str))
    ELSE <<Head(str)>> \o StripDots(Tail(str))

IsLeap(y) == (y % 4 = 0 /\ y % 100 # 0) \/ y % 400 = 0

\* Leap days in the years before y.
LeapsBefore(y) == ((y - 1) \div 4) - ((y - 1) \div 100) + ((y - 1) \div 400)

\* Days of the year before month m0 (0-based).
DaysBeforeMonth(y, m0) ==
    LET cum == <<0, 31, 59, 90, 120, 151, 181, 212, 243, 273, 304, 334>>
    IN cum[m0 + 1] + (IF m0 >= 2 /\ IsLeap(y) THEN 1 ELSE 0)

\* new Date(year, month, day).getTime(), counted in days since 1 January
\* 1970 (local time): a month outside 0..11 carries into the year, a day
\* outside the month carries on, a year 0..99 means 1900 + year; NaN when an
\* argument is NaN.
DateTime(year, month, day) ==
    IF year = NaN \/ month = NaN \/ day = NaN THEN NaN
    ELSE LET y0 == IF year[1] \in 0..99 THEN 1900 + year[1] ELSE year[1]
             y == y0 + (month[1] \div 12)
             m0 == month[1] % 12
         IN Num(365 * (y - 1970) + LeapsBefore(y) - LeapsBefore(1970)
                + DaysBeforeMonth(y, m0) + day[1] - 1)

Minus1(n) == IF n = NaN THEN NaN ELSE Num(n[1] - 1)

\* parseDate of the sort comparator.
parseDate(dateStr) ==
    IF dateStr = <<>> THEN Num(0)
    ELSE LET parts == split(dateStr, "/")
         IN IF Len(parts) = 3
            THEN DateTime(parseInt(parts[3]), Minus1(parseInt(parts[2])), parseInt(parts[1]))
            ELSE Num(0)

\* The rows the merge filters out: "số dư đầu kỳ", "cộng phát sinh" (written
\* here without their diacritics).
OpeningRow == <<"s", "o", " ", "d", "u", " ", "d", "a", "u", " ", "k", "y">>

TotalsRow == <<"c", "o", "n", "g", " ", "p", "h", "a", "t", " ", "s", "i", "n", "h">>

IsValidTx(tx) ==
    /\ ~includes(toLowerCase(tx.description), OpeningRow)
    /\ ~includes(toLowerCase(tx.description), TotalsRow)

\* A merge that would keep every valid transaction.
DedupNothing(txs, d) == [seen |-> d.seen, all |-> d.all \o txs]

\* valid.forEach over one fragment: d is [seen, all], globalSeenSignatures and
\* allTransactions.
RECURSIVE DedupInto(_, _)
DedupInto(txs, d) ==
    IF txs = <<>> THEN d
    ELSE LET tx == Head(txs)
             sig == createTxSignature(tx)
         IN DedupInto(Tail(txs),
                      IF sig \notin d.seen
                      THEN [seen |-> d.seen \cup {sig}, all |-> Append(d.all, tx)]
                      ELSE d)

\* A merge that would look for duplicates inside each fragment only.
RECURSIVE DedupPerFragment(_, _)
DedupPerFragment(sortedChunks, d) ==
    IF sortedChunks = <<>> THEN d
    ELSE DedupPerFragment(Tail(sortedChunks),
                          DedupInto(SelectSeq(Head(sortedChunks).result.transactions, IsValidTx),
                                    [seen |-> {}, all |-> d.all]))

\* sortedChunks.forEach
RECURSIVE DedupChunks(_, _)
DedupChunks(sortedChunks, d) ==
    IF sortedChunks = <<>> THEN d
    ELSE DedupChunks(Tail(sortedChunks),
                     DedupInto(SelectSeq(Head(sortedChunks).result.transactions, IsValidTx), d))

\* [...chunksToMerge].sort((a, b) => a.index - b.index): the indices are
\* numbers, the sort is stable.
RECURSIVE SortByIndex(_)
SortByIndex(chs) ==
    IF chs = <<>> THEN <<>>
    ELSE LET tail == chs[Len(chs)]
             front == SortByIndex(SubSeq(chs, 1, Len(chs) - 1))
             NotAfter(c) == c.index <= tail.index
             After(c) == c.index > tail.index
         IN SelectSeq(front, NotAfter) \o <<tail>> \o SelectSeq(front, After)

\* The comparator of allTransactions.sort says a goes after b.
GoesAfter(a, b) ==
    LET ka == parseDate(a.date)
        kb == parseDate(b.date)
    IN ka # NaN /\ kb # NaN /\ ka[1] > kb[1]

RECURSIVE StableSortByDate(_)
StableSortByDate(txs) ==
    IF txs = <<>> THEN <<>>
    ELSE LET tail == txs[Len(txs)]
             front == StableSortByDate(SubSeq(txs, 1, Len(txs) - 1))
             NotAfter(t) == ~GoesAfter(t, tail)
             After(t) == GoesAfter(t, tail)
         IN SelectSeq(front, NotAfter) \o <<tail>> \o SelectSeq(front, After)

Orders(n) == {f \in [1..n -> 1..n] : \A i, j \in 1..n : f[i] = f[j] => i = j}

\* What allTransactions.sort can leave. With numbers for every date the
\* comparator is consistent and the sort is the stable one. With a NaN date
\* the comparator returns NaN (taken as 0) against every other transaction
\* and is not consistent: the order is implementation-defined, any order in
\* which no transaction stands right before one it goes after.
SortOutcomes(txs) ==
    IF \A k \in 1..Len(txs) : parseDate(txs[k].date) # NaN
    THEN {StableSortByDate(txs)}
    ELSE {q \in {[k \in 1..Len(txs) |-> txs[f[k]]] : f \in Orders(Len(txs))} :
             \A k \in 1..(Len(q) - 1) : ~GoesAfter(q[k], q[k + 1])}

\* The totals of allTransactions.reduce.
RECURSIVE totalDebit(_)
totalDebit(txs) == IF txs = <<>> THEN 0 ELSE Head(txs).debit + totalDebit(Tail(txs))

RECURSIVE totalCredit(_)
totalCredit(txs) == IF txs = <<>> THEN 0 ELSE Head(txs).credit + totalCredit(Tail(txs))

\* x || 0 of a number that may be NaN.
OrZero(x) == IF x = NaN THEN 0 ELSE x[1]

Abs(n) == IF n < 0 THEN -n ELSE n

MISMATCH_TOLERANCE == 100

NoResult == [none |-> TRUE]

NoWarning == [none |-> TRUE]

\* chunks.filter(c => c.status === 'completed' && c.result && c.isCheckedForMerge)
ChunksToMerge(chs) ==
    LET Keep(c) == c.status = "completed" /\ c.result # NoResult /\ c.isCheckedForMerge
    IN SelectSeq(chs, Keep)

globalOpening(sortedChunks, openingBalance) ==
    IF openingBalance # <<>>
    THEN OrZero(parseInt(StripDots(openingBalance)))
    ELSE sortedChunks[1].result.openingBalance

detectedEnding(sortedChunks) == sortedChunks[Len(sortedChunks)].result.endingBalance

\* What handleMergeResults computes from the chunks, the opening balance the
\* user typed and one outcome of the sort: the merged result (accountInfo
\* apart) and the warning.
Merged(chs, openingBalance, sorted) ==
    LET sortedChunks == SortByIndex(ChunksToMerge(chs))
        opening == globalOpening(sortedChunks, openingBalance)
        detected == detectedEnding(sortedChunks)
        calculatedEnding == opening + totalDebit(sorted) - totalCredit(sorted)
        diff == Abs(calculatedEnding - detected)
    IN [result |-> [transactions |-> sorted, openingBalance |-> opening,
                    endingBalance |-> calculatedEnding],
        warning |-> IF diff > MISMATCH_TOLERANCE /\ detected # 0
                    THEN [detected |-> detected, calculated |-> calculatedEnding, diff |-> diff]
                    ELSE NoWarning]

\* allTransactions before the sort.
AllTransactions(chs) ==
    DedupChunks(SortByIndex(ChunksToMerge(chs)), [seen |-> {}, all |-> <<>>]).all

\* What a merge of the chunks can give.
MergeOutcomes(chs, openingBalance) ==
    {Merged(chs, openingBalance, sorted) : sorted \in SortOutcomes(AllTransactions(chs))}

\* handleMergeResults; with nothing to merge it alerts and returns.
m_handleMergeResults ==
    /\ ChunksToMerge(m_chunks) # <<>>
    /\ \E m \in MergeOutcomes(m_chunks, m_openingBalance) :
          /\ m_mergedResult' = m.result
          /\ m_warning' = m.warning
    /\ m_isMergedView' = TRUE
    /\ UNCHANGED <<m_chunks, m_openingBalance>>

\* ---- the inputs of the merge

SeqsUpTo(S, n) == UNION {[1..k -> S] : k \in 0..n}

Tx(date, debit, credit, code, desc) ==
    [date |-> date, debit |-> debit, credit |-> credit, transactionCode |-> code,
     description |-> desc]

\* "02/01/2024", "01/01/2024", a date without slashes, a date whose day is
\* not a number.
Jan2 == <<"0", "2", "/", "0", "1", "/", "2", "0", "2", "4">>

Jan1 == <<"0", "1", "/", "0", "1", "/", "2", "0", "2", "4">>

NoSlashDate == <<"2", "0", "2", "4", "-", "0", "1", "-", "0", "3">>

NoDayDate == <<"?", "/", "0", "1", "/", "2", "0", "2", "4">>

\* Transactions for the deduplication: two with one signature and different
\* descriptions, one of another day.
DedupTxs ==
    {Tx(Jan2, 500000, 0, <<"T", "1">>, <<"a">>),
     Tx(Jan2, 500000, 0, <<"t", "1">>, <<"b">>),
     Tx(Jan1, 0, 200000, <<>>, <<"a">>)}

\* Transactions of one chunk: one per kind of date, and a row of the opening
\* balance.
SortTxs ==
    {Tx(d, 500000, 0, <<>>, <<"a">>) : d \in {Jan2, Jan1, NoSlashDate, NoDayDate}}
    \cup {Tx(Jan1, 0, 200000, <<>>, <<"S", "o", " ", "d", "u", " ", "d", "a", "u", " ", "k", "y">>)}

\* Fragments for the balances: one debit of 500,000, one credit of 200,000.
BalanceFragments ==
    {<<>>, <<Tx(Jan1, 500000, 0, <<>>, <<"a">>)>>,
     <<Tx(Jan1, 500000, 0, <<>>, <<"a">>), Tx(Jan2, 0, 200000, <<>>, <<"b">>)>>}

OpeningBalances == {0, 1000000}

EndingBalances == {0, 1300000, 1300050, 1305000}

\* What the user typed as opening balance: nothing, 0, 1.000.000.
TypedBalances == {<<>>, <<"0">>, <<"1", ".", "0", "0", "0", ".", "0", "0", "0">>}

Completed(k, txs, opening, ending, checked) ==
    [index |-> k, status |-> "completed", isCheckedForMerge |-> checked,
     result |-> [transactions |-> txs, openingBalance |-> opening, endingBalance |-> ending]]

Failed(k) == [index |-> k, status |-> "error", isCheckedForMerge |-> TRUE, result |-> NoResult]

\* Chunk lists that differ in their transactions.
DedupInputs ==
    \E n \in 1..MaxMergeChunks : \E frs \in [1..n -> SeqsUpTo(DedupTxs, MaxTx)] :
        m_chunks = [k \in 1..n |-> Completed(k, frs[k], 0, 0, TRUE)]

\* One chunk whose transactions differ in their dates.
SortInputs == \E txs \in SeqsUpTo(SortTxs, MaxTx) : m_chunks = <<Completed(1, txs, 0, 0, TRUE)>>

\* A chunk of the balance inputs: failed, completed and unticked, or
\* completed and ticked with any fragment and balances.
BalanceChunks(k) ==
    {Failed(k), Completed(k, <<>>, 1000000, 1305000, FALSE)} \cup
    {Completed(k, f.txs, f.opening, f.ending, TRUE) :
        f \in [txs : BalanceFragments, opening : OpeningBalances, ending : EndingBalances]}

\* Chunk lists that differ in their status, tick and balances.
BalanceInputs ==
    \E n \in 1..MaxMergeChunks : \E pick \in [1..n -> BalanceChunks(1)] :
        m_chunks = [k \in 1..n |-> [pick[k] EXCEPT !.index = k]]

\* A warning an earlier merge left.
EarlierWarning == [detected |-> 1, calculated |-> 1000, diff |-> 999]

MergeIdle ==
    /\ m_chunks = <<>>
    /\ m_openingBalance = <<>>
    /\ m_mergedResult = NoResult
    /\ m_warning = NoWarning
    /\ m_isMergedView = FALSE

MergeStart ==
    /\ m_mergedResult = NoResult
    /\ m_isMergedView = FALSE
    /\ \/ /\ DedupInputs \/ SortInputs
          /\ m_openingBalance = <<>>
          /\ m_warning = NoWarning
       \/ /\ BalanceInputs
          /\ m_openingBalance \in TypedBalances
          /\ m_warning \in {NoWarning, EarlierWarning}

\* ------------------------------------------------------------------------
\* The splitting of handleExtractText (App.tsx, batch revision)
\* ------------------------------------------------------------------------
\* A text is a sequence of characters; a literal of the code stands in it as
\* one element.

HEADER_ROWS == 20

PREVIEW_ROWS == 3

NL == <<"\n">>

HeaderOpen == <<"--- HEADER CONTEXT (INFO ONLY - DO NOT EXTRACT) ---">>

HeaderClose == <<"--- END HEADER ---">>

\* "(Trống)", without its diacritic
EmptyPreview == <<"(Trong)">>

ALL == <<"A", "L", "L">>

ChunkStrategies ==
    {ALL, <<"2", "0", "0">>, <<"1", "0", "0">>, <<"5", "0">>, <<"3", "0">>}

Least(a, b) == IF a < b THEN a ELSE b

Greatest(a, b) == IF a > b THEN a ELSE b

\* arr.slice(from, to) with from, to >= 0
slice(arr, from, to) == SubSeq(arr, from + 1, Least(to, Len(arr)))

\* arr.slice(-n)
sliceLast(arr, n) == SubSeq(arr, Greatest(1, Len(arr) - n + 1), Len(arr))

\* The sequences lo..hi of seqs, one after the other.
RECURSIVE FlattenRange(_, _, _)
FlattenRange(seqs, lo, hi) ==
    IF lo > hi THEN <<>>
    ELSE IF lo = hi THEN seqs[lo]
    ELSE LET mid == (lo + hi) \div 2
         IN FlattenRange(seqs, lo, mid) \o FlattenRange(seqs, mid + 1, hi)

Flatten(seqs) == FlattenRange(seqs, 1, Len(seqs))

\* lines.join(sep)
RECURSIVE join(_, _)
join(lines, sep) ==
    IF lines = <<>> THEN <<>>
    ELSE IF Len(lines) = 1 THEN lines[1]
    ELSE lines[1] \o sep \o join(Tail(lines), sep)

\* The strategy the line count suggests.
suggestion(totalLines) ==
    IF totalLines > 5000 THEN <<"2", "0", "0">>
    ELSE IF totalLines > 2000 THEN <<"1", "0", "0">>
    ELSE IF totalLines > 1000 THEN <<"5", "0">>
    ELSE IF totalLines > 0 /\ totalLines <= 100 THEN ALL
    ELSE <<"3", "0">>

chunkSizeOf(chunkStrategy, allLines) ==
    IF chunkStrategy = ALL THEN Greatest(1, Len(allLines))
    ELSE parseInt(chunkStrategy)[1]

headerTextOf(allLines) == join(slice(allLines, 0, HEADER_ROWS), NL)

\* The lines the version before 1.6.7 split: allLines.slice(HEADER_ROWS).
SourceWithoutHeader(allLines) == slice(allLines, HEADER_ROWS, Len(allLines))

\* const sourceLines = allLines
sourceLinesOf(allLines) == allLines

\* A splitting that would give every text chunk the header block.
HeaderEverywhere(i, headerText, chunkBody) ==
    HeaderOpen \o NL \o headerText \o NL \o HeaderClose \o NL \o NL \o chunkBody

\* contextContent of the chunk at offset i
contextContent(i, headerText, chunkBody) ==
    IF i > 0 /\ headerText # <<>>
    THEN HeaderOpen \o NL \o headerText \o NL \o HeaderClose \o NL \o NL \o chunkBody
    ELSE chunkBody

\* lines.map(l => l.trim()).filter(l => l).join('\n') || "(Trống)"
previewOf(lines) ==
    LET NotEmpty(l) == l # <<>>
        text == join(SelectSeq([k \in 1..Len(lines) |-> trim(lines[k])], NotEmpty), NL)
    IN IF text = <<>> THEN EmptyPreview ELSE text

\* The text chunk of the loop at offset i; its id is the offset (the time of
\* the clock in it is left out).
TextChunk(i, sourceLines, chunkSize, headerText) ==
    LET chunkBodyLines == slice(sourceLines, i, i + chunkSize)
    IN [id |-> i, index |-> 0, type |-> "text",
        data |-> contextContent(i, headerText, join(chunkBodyLines, NL)),
        previewStart |-> previewOf(slice(chunkBodyLines, 0, PREVIEW_ROWS)),
        previewEnd |-> previewOf(sliceLast(chunkBodyLines, PREVIEW_ROWS)),
        isSelected |-> TRUE, status |-> "idle", isCheckedForMerge |-> TRUE]

\* for (let i = 0; i < sourceLines.length; i += chunkSize)
RECURSIVE TextChunksFrom(_, _, _, _)
TextChunksFrom(i, sourceLines, chunkSize, headerText) ==
    IF i < Len(sourceLines)
    THEN <<TextChunk(i, sourceLines, chunkSize, headerText)>>
            \o TextChunksFrom(i + chunkSize, sourceLines, chunkSize, headerText)
    ELSE <<>>

\* The chunk of an image page.
ImageChunk(idx) ==
    [id |-> idx, index |-> 0, type |-> "image", data |-> <<"page">>,
     previewStart |-> <<"[Trang Anh/PDF ">> \o NumberToString(idx + 1) \o <<"]">>,
     previewEnd |-> <<"(Du lieu dang anh, se dung OCR)">>,
     isSelected |-> TRUE, status |-> "idle", isCheckedForMerge |-> TRUE]

\* finalChunks: the image chunks, then the text chunks, numbered from 1.
finalChunks(images, allLines, chunkStrategy) ==
    LET imageChunks == [k \in 1..images |-> ImageChunk(k - 1)]
        textChunks == IF Len(allLines) > 0
                      THEN TextChunksFrom(0, sourceLinesOf(allLines),
                                          chunkSizeOf(chunkStrategy, allLines),
                                          headerTextOf(allLines))
                      ELSE <<>>
        all == imageChunks \o textChunks
    IN [k \in 1..Len(all) |-> [all[k] EXCEPT !.index = k]]

\* handleExtractText from the moment the files are read: it suggests a
\* strategy, and splits by the strategy its closure holds.
c_handleExtractText ==
    /\ ~c_split
    /\ c_recommendedStrategy' = suggestion(Len(c_allLines))
    /\ c_chunkStrategy' = suggestion(Len(c_allLines))
    /\ c_chunks' = finalChunks(c_images, c_allLines, c_chunkStrategy)
    /\ c_split' = TRUE
    /\ UNCHANGED <<c_allLines, c_images>>

\* ---- the inputs of the splitting

\* Line k of a text: numbered, empty, or padded with a blank and a tab.
LineKinds == {"numbered", "empty", "padded"}

LineOf(kind, k) ==
    CASE kind = "numbered" -> <<"r">> \o NumberToString(k)
      [] kind = "empty" -> <<>>
      [] kind = "padded" -> <<" ", "x", "\t">>

\* Texts in which every line is of one kind, or every third line of another.
TextsOf(n) ==
    {[k \in 1..n |-> LineOf(IF k % 3 = 0 THEN other ELSE kind, k)] :
        kind \in LineKinds, other \in LineKinds}

SplitIdle ==
    /\ c_allLines = <<>>
    /\ c_images = 0
    /\ c_chunkStrategy = <<"3", "0">>
    /\ c_recommendedStrategy = <<"3", "0">>
    /\ c_chunks = <<>>
    /\ c_split = FALSE

SplitStart ==
    /\ \E n \in 0..MaxLines : c_allLines \in TextsOf(n)
    /\ c_images \in 0..MaxImages
    /\ c_chunkStrategy \in ChunkStrategies
    /\ c_recommendedStrategy = <<"3", "0">>
    /\ c_chunks = <<>>
    /\ c_split = FALSE

\* ------------------------------------------------------------------------
\* robustJSONRepair and cleanAndParseJSON (geminiService.ts)
\* ------------------------------------------------------------------------
\* A text is a sequence of characters. "LDQ" and "RDQ" stand for the curly
\* quotes U+201C and U+201D, "SOH" for the control character U+0001.

QUOTE == "\""

BACKSLASH == "\\"

\* [a-zA-Z0-9_]
WordChars ==
    LET word ==
        <<"a", "b", "c", "d", "e", "f", "g", "h", "i", "j", "k", "l", "m", "n", "o",
          "p", "q", "r", "s", "t", "u", "v", "w", "x", "y", "z", "A", "B", "C", "D",
          "E", "F", "G", "H", "I", "J", "K", "L", "M", "N", "O", "P", "Q", "R", "S",
          "T", "U", "V", "W", "X", "Y", "Z", "0", "1", "2", "3", "4", "5", "6", "7",
          "8", "9", "_">>
    IN {word[i] : i \in 1..Len(word)}

\* [\u0000-\u001F], on the characters the model uses
ControlChars == {"\n", "\r", "\t", "\f", "SOH"}

\* str is found in text at position i (from 1)
FoundAt(text, i, str) ==
    /\ i >= 1
    /\ i + Len(str) - 1 <= Len(text)
    /\ SubSeq(text, i, i + Len(str) - 1) = str

\* text.indexOf(str) and text.lastIndexOf(str), positions from 0
indexOf(text, str) ==
    LET at == {i \in 1..Len(text) : FoundAt(text, i, str)}
    IN IF at = {} THEN -1 ELSE (CHOOSE i \in at : \A k \in at : i <= k) - 1

lastIndexOf(text, str) ==
    LET at == {i \in 1..Len(text) : FoundAt(text, i, str)}
    IN IF at = {} THEN -1 ELSE (CHOOSE i \in at : \A k \in at : i >= k) - 1

endsWith(text, str) == FoundAt(text, Len(text) - Len(str) + 1, str)

\* text.substring(from) and text.substring(0, to), positions from 0
substringFrom(text, from) == SubSeq(text, from + 1, Len(text))

\* text.replace(/str/g, ''): every occurrence, from the left
RECURSIVE RemoveAll(_, _)
RemoveAll(text, str) ==
    LET at == indexOf(text, str)
    IN IF at = -1 THEN text
       ELSE SubSeq(text, 1, at) \o RemoveAll(substringFrom(text, at + Len(str)), str)

\* replace(/[\u201C\u201D]/g, '"')
StraightenQuotes(text) ==
    [i \in 1..Len(text) |-> IF text[i] \in {"LDQ", "RDQ"} THEN QUOTE ELSE text[i]]

\* The backslashes that end at position j.
RECURSIVE backslashCount(_, _)
backslashCount(repaired, j) ==
    IF j >= 1 /\ repaired[j] = BACKSLASH THEN 1 + backslashCount(repaired, j - 1) ELSE 0

isEscaped(repaired, i) == backslashCount(repaired, i - 1) % 2 # 0

\* The position of the first quote from i on that is not escaped, or one
\* past the end.
nextQuote(repaired, i) ==
    LET at == {k \in i..Len(repaired) : repaired[k] = QUOTE /\ ~isEscaped(repaired, k)}
    IN IF at = {} THEN Len(repaired) + 1 ELSE CHOOSE k \in at : \A q \in at : k <= q

\* The while loop that cuts the text into segments, string literals and the
\* syntax between them, from position i (from 1): it moves on to the next
\* quote that is not escaped, which opens or closes a string literal.
RECURSIVE SegmentsFrom(_, _, _, _, _)
SegmentsFrom(repaired, i, segments, currentSegment, inString) ==
    LET q == nextQuote(repaired, i)
        upToQuote == currentSegment \o SubSeq(repaired, i, q - 1)
    IN IF q > Len(repaired) THEN Append(segments, upToQuote)
       ELSE IF ~inString
       THEN SegmentsFrom(repaired, q + 1, Append(segments, upToQuote), <<QUOTE>>, TRUE)
       ELSE SegmentsFrom(repaired, q + 1, Append(segments, Append(upToQuote, QUOTE)),
                         <<>>, FALSE)

\* A string segment: control characters escaped or stripped.
EscapeControls(seg) ==
    Flatten([i \in 1..Len(seg) |->
                CASE seg[i] = "\f" -> <<BACKSLASH, "f">>
                  [] seg[i] = "\n" -> <<BACKSLASH, "n">>
                  [] seg[i] = "\r" -> <<BACKSLASH, "r">>
                  [] seg[i] = "\t" -> <<BACKSLASH, "t">>
                  [] seg[i] = "SOH" -> <<>>
                  [] OTHER -> <<seg[i]>>])

\* The first position from i on that holds no white space.
RECURSIVE SkipSpaces(_, _)
SkipSpaces(text, i) ==
    IF i <= Len(text) /\ (IsSpace(text[i]) \/ text[i] = "\f") THEN SkipSpaces(text, i + 1) ELSE i

\* The first position from i on that holds no character of a word.
RECURSIVE SkipWord(_, _)
SkipWord(text, i) ==
    IF i <= Len(text) /\ text[i] \in WordChars THEN SkipWord(text, i + 1) ELSE i

\* replace(/\/\/.*$/gm, ''): a character goes when two slashes stand before
\* it, or at it, on its line.
RemoveComments(text) ==
    LET InComment(i) ==
            \E c \in 1..i : /\ FoundAt(text, c, <<"/", "/">>)
                            /\ \A k \in c..i : text[k] \notin {"\n", "\r"}
    IN Flatten([i \in 1..Len(text) |-> IF InComment(i) THEN <<>> ELSE <<text[i]>>])

\* replace(/[\u0000-\u0008\u000B\u000C\u000E-\u001F]/g, '')
RemoveControls(text) ==
    LET Kept(c) == c \notin {"\f", "SOH"}
    IN SelectSeq(text, Kept)

\* replace(/([{,]\s*)([a-zA-Z0-9_]+)\s*:/g, '$1"$2":'): a match starts at a
\* '{' or ',' and holds no other, so no two matches overlap.
QuoteKeys(text) ==
    LET Word(i) == SkipSpaces(text, i + 1)
        After(i) == SkipWord(text, Word(i))
        Colon(i) == SkipSpaces(text, After(i))
        Matches(i) ==
            /\ text[i] \in {"{", ","}
            /\ After(i) > Word(i)
            /\ Colon(i) <= Len(text)
            /\ text[Colon(i)] = ":"
        Matched(i) == \E m \in 1..(i - 1) : Matches(m) /\ i <= Colon(m)
    IN Flatten([i \in 1..Len(text) |->
                   IF Matches(i)
                   THEN SubSeq(text, i, Word(i) - 1) \o <<QUOTE>>
                           \o SubSeq(text, Word(i), After(i) - 1) \o <<QUOTE, ":">>
                   ELSE IF Matched(i) THEN <<>>
                   ELSE <<text[i]>>])

\* replace(/,(\s*[}\]])/g, '$1'): the comma of every match goes.
RemoveTrailingCommas(text) ==
    LET Close(i) == SkipSpaces(text, i + 1)
        Matches(i) ==
            text[i] = "," /\ Close(i) <= Len(text) /\ text[Close(i)] \in {"}", "]"}
    IN Flatten([i \in 1..Len(text) |-> IF Matches(i) THEN <<>> ELSE <<text[i]>>])

\* The final cleanup of trailing commas, over the whole text.
FinalCleanup(text) == RemoveTrailingCommas(text)

\* segments.map: a segment that starts with a quote is a string literal.
RepairSegment(seg) ==
    IF seg # <<>> /\ Head(seg) = QUOTE
    THEN EscapeControls(seg)
    ELSE RemoveTrailingCommas(QuoteKeys(RemoveControls(RemoveComments(seg))))

TransactionsKey ==
    <<"\"", "t", "r", "a", "n", "s", "a", "c", "t", "i", "o", "n", "s", "\"">>

\* Step 4: a text that does not end with '}' is cut after its last '},' or
\* its last '}' and closed with ']}'.
CloseTruncated(repaired) ==
    LET transactionsIndex == indexOf(repaired, TransactionsKey)
        lastItemEnd == lastIndexOf(repaired, <<"}", ",">>)
        lastBrace == lastIndexOf(repaired, <<"}">>)
    IN IF ~endsWith(repaired, <<"}">>) /\ transactionsIndex # -1
       THEN IF lastItemEnd > transactionsIndex
            THEN SubSeq(repaired, 1, lastItemEnd + 1) \o <<"]", "}">>
            ELSE IF lastBrace > transactionsIndex
            THEN SubSeq(repaired, 1, lastBrace + 1) \o <<"]", "}">>
            ELSE repaired
       ELSE repaired

\* None of the steps of the try block throws: its catch is not modelled.
robustJSONRepair(jsonStr) ==
    LET straight == StraightenQuotes(trim(jsonStr))
        segments == SegmentsFrom(straight, 1, <<>>, <<>>, FALSE)
        mapped == Flatten([k \in 1..Len(segments) |-> RepairSegment(segments[k])])
    IN FinalCleanup(CloseTruncated(mapped))

\* ---- JSON.parse, on texts of objects, arrays and strings (the texts of the
\* model hold no number and no literal name outside a string)

ParseFailed == [ok |-> FALSE, value |-> <<>>, next |-> 0]

\* The white space of JSON.
RECURSIVE SkipJSONSpaces(_, _)
SkipJSONSpaces(text, i) ==
    IF i <= Len(text) /\ text[i] \in {" ", "\t", "\n", "\r"}
    THEN SkipJSONSpaces(text, i + 1) ELSE i

\* The characters of a string literal whose opening quote is before i.
RECURSIVE ParseChars(_, _, _)
ParseChars(text, i, acc) ==
    IF i > Len(text) \/ text[i] \in ControlChars THEN ParseFailed
    ELSE IF text[i] = QUOTE THEN [ok |-> TRUE, value |-> acc, next |-> i + 1]
    ELSE IF text[i] = BACKSLASH
    THEN IF i + 1 > Len(text) THEN ParseFailed
         ELSE LET c == text[i + 1]
              IN IF c \in {QUOTE, BACKSLASH, "/"} THEN ParseChars(text, i + 2, Append(acc, c))
                 ELSE IF c = "n" THEN ParseChars(text, i + 2, Append(acc, "\n"))
                 ELSE IF c = "r" THEN ParseChars(text, i + 2, Append(acc, "\r"))
                 ELSE IF c = "t" THEN ParseChars(text, i + 2, Append(acc, "\t"))
                 ELSE IF c = "f" THEN ParseChars(text, i + 2, Append(acc, "\f"))
                 ELSE ParseFailed
    ELSE ParseChars(text, i + 1, Append(acc, text[i]))

\* A value is [t |-> "str", v |-> characters], [t |-> "arr", v |-> values] or
\* [t |-> "obj", v |-> <<key, value>> pairs].
RECURSIVE ParseValue(_, _)
RECURSIVE ParseElements(_, _, _)
RECURSIVE ParseMembers(_, _, _)

ParseValue(text, from) ==
    LET i == SkipJSONSpaces(text, from)
    IN IF i > Len(text) THEN ParseFailed
       ELSE IF text[i] = QUOTE
       THEN LET s == ParseChars(text, i + 1, <<>>)
            IN IF s.ok THEN [ok |-> TRUE, value |-> [t |-> "str", v |-> s.value], next |-> s.next]
               ELSE ParseFailed
       ELSE IF text[i] = "["
       THEN LET j == SkipJSONSpaces(text, i + 1)
            IN IF j <= Len(text) /\ text[j] = "]"
               THEN [ok |-> TRUE, value |-> [t |-> "arr", v |-> <<>>], next |-> j + 1]
               ELSE ParseElements(text, j, <<>>)
       ELSE IF text[i] = "{"
       THEN LET j == SkipJSONSpaces(text, i + 1)
            IN IF j <= Len(text) /\ text[j] = "}"
               THEN [ok |-> TRUE, value |-> [t |-> "obj", v |-> <<>>], next |-> j + 1]
               ELSE ParseMembers(text, j, <<>>)
       ELSE ParseFailed

ParseElements(text, from, acc) ==
    LET e == ParseValue(text, from)
    IN IF ~e.ok THEN ParseFailed
       ELSE LET j == SkipJSONSpaces(text, e.next)
            IN IF j > Len(text) THEN ParseFailed
               ELSE IF text[j] = ","  THEN ParseElements(text, j + 1, Append(acc, e.value))
               ELSE IF text[j] = "]"
               THEN [ok |-> TRUE, value |-> [t |-> "arr", v |-> Append(acc, e.value)], next |-> j + 1]
               ELSE ParseFailed

ParseMembers(text, from, acc) ==
    LET i == SkipJSONSpaces(text, from)
    IN IF i > Len(text) \/ text[i] # QUOTE THEN ParseFailed
       ELSE LET k == ParseChars(text, i + 1, <<>>)
                c == SkipJSONSpaces(text, k.next)
            IN IF ~k.ok \/ c > Len(text) \/ text[c] # ":" THEN ParseFailed
               ELSE LET e == ParseValue(text, c + 1)
                    IN IF ~e.ok THEN ParseFailed
                       ELSE LET j == SkipJSONSpaces(text, e.next)
                                members == Append(acc, <<k.value, e.value>>)
                            IN IF j > Len(text) THEN ParseFailed
                               ELSE IF text[j] = "," THEN ParseMembers(text, j + 1, members)
                               ELSE IF text[j] = "}"
                               THEN [ok |-> TRUE, value |-> [t |-> "obj", v |-> members],
                                     next |-> j + 1]
                               ELSE ParseFailed

\* JSON.parse(text): [ok, value]; not ok when it throws.
JSONparse(text) ==
    LET p == ParseValue(text, 1)
    IN IF p.ok /\ SkipJSONSpaces(text, p.next) > Len(text)
       THEN [ok |-> TRUE, value |-> p.value]
       ELSE [ok |-> FALSE, value |-> <<>>]

\* "BQ" stands for the backquote.
Fence == <<"BQ", "BQ", "BQ">>

\* repairSyntax of cleanAndParseJSON
repairSyntax(str) == trim(RemoveAll(RemoveAll(str, Fence \o <<"j", "s", "o", "n">>), Fence))

\* cleanAndParseJSON(text): [ok, via, value]; not ok when it throws, via is
\* the JSON.parse that returned.
cleanAndParseJSON(text) ==
    IF trim(text) = <<>> THEN [ok |-> FALSE, via |-> "empty", value |-> <<>>]
    ELSE LET cleaned == repairSyntax(text)
             direct == JSONparse(cleaned)
             firstOpen == indexOf(cleaned, <<"{">>)
             candidate == substringFrom(cleaned, firstOpen)
             second == JSONparse(candidate)
             third == JSONparse(robustJSONRepair(candidate))
         IN IF direct.ok THEN [ok |-> TRUE, via |-> "cleaned", value |-> direct.value]
            ELSE IF firstOpen = -1 THEN [ok |-> FALSE, via |-> "no brace", value |-> <<>>]
            ELSE IF second.ok THEN [ok |-> TRUE, via |-> "candidate", value |-> second.value]
            ELSE IF third.ok THEN [ok |-> TRUE, via |-> "repaired", value |-> third.value]
            ELSE [ok |-> FALSE, via |-> "repaired", value |-> <<>>]

NotParsed == [ok |-> FALSE, via |-> "not called", value |-> <<>>]

\* cleanAndParseJSON is applied to the text.
j_cleanAndParseJSON ==
    /\ j_result = NotParsed
    /\ j_result' = cleanAndParseJSON(j_text)
    /\ UNCHANGED <<j_descs, j_shape, j_text>>

\* ---- the texts

\* What a description can hold: letters, the punctuation of JSON alone and
\* in pairs, a quote, a line break, a curly quote.
DescContents ==
    {<<"a">>, <<"{">>, <<"}">>, <<":">>, <<",">>, <<"a", ",", "b">>,
     <<"a", ",", "}">>, <<"}", ",">>, <<",", " ", "]">>, <<"{", "b", ":">>,
     <<"q", QUOTE>>, <<"x", "\n", "y">>, <<"LDQ", "a">>}

\* The string literal of a description; a line break is written \n, or left
\* as it is when raw.
RECURSIVE Encode(_, _)
Encode(str, raw) ==
    IF str = <<>> THEN <<>>
    ELSE (CASE Head(str) = QUOTE -> <<BACKSLASH, QUOTE>>
            [] Head(str) = BACKSLASH -> <<BACKSLASH, BACKSLASH>>
            [] Head(str) = "\n" /\ ~raw -> <<BACKSLASH, "n">>
            [] OTHER -> <<Head(str)>>) \o Encode(Tail(str), raw)

DescriptionKey ==
    <<"\"", "d", "e", "s", "c", "r", "i", "p", "t", "i", "o", "n", "\"">>

Item(desc, raw) ==
    <<"{">> \o DescriptionKey \o <<":", QUOTE>> \o Encode(desc, raw) \o <<QUOTE, "}">>

Items(descs, raw) == join([k \in 1..Len(descs) |-> Item(descs[k], raw)], <<",">>)

\* How the text differs from the JSON of the descriptions.
Shapes ==
    {"valid", "fenced", "prefixed", "trailing comma", "bare key", "comment",
     "raw line break", "truncated", "truncated in a string"}

TextOf(descs, shape) ==
    LET open == <<"{">> \o TransactionsKey \o <<":", "[">>
        whole == open \o Items(descs, FALSE) \o <<"]", "}">>
    IN CASE shape = "valid" -> whole
         [] shape = "fenced" -> Fence \o <<"j", "s", "o", "n", "\n">> \o whole \o <<"\n">> \o Fence
         [] shape = "prefixed" -> <<"O", "K", ":", " ">> \o whole
         [] shape = "trailing comma" -> open \o Items(descs, FALSE) \o <<",", "]", "}">>
         [] shape = "bare key" ->
                <<"{", "t", "r", "a", "n", "s", "a", "c", "t", "i", "o", "n", "s", " ", ":", "[">>
                    \o Items(descs, FALSE) \o <<"]", "}">>
         [] shape = "comment" ->
                open \o Items(descs, FALSE) \o <<"]", " ", "/", "/", " ", "c", "\n", "}">>
         [] shape = "raw line break" -> open \o Items(descs, TRUE) \o <<",", "]", "}">>
         [] shape = "truncated" ->
                open \o Items(descs, FALSE) \o <<",", "{">> \o DescriptionKey \o <<":", QUOTE, "a">>
         [] shape = "truncated in a string" ->
                open \o Items(descs, FALSE) \o <<",", "{">> \o DescriptionKey
                    \o <<":", QUOTE, "a", "}", ",">>

RepairIdle ==
    /\ j_descs = <<>>
    /\ j_shape = "valid"
    /\ j_text = <<>>
    /\ j_result = NotParsed

RepairStart ==
    /\ \E n \in 1..MaxDescs : j_descs \in [1..n -> DescContents]
    /\ j_shape \in Shapes
    /\ j_text = TextOf(j_descs, j_shape)
    /\ j_result = NotParsed

\* ------------------------------------------------------------------------
\* callGoogleAI: the request built from the messages (geminiService.ts)
\* ------------------------------------------------------------------------

\* "\n\n", what joins the contents of messages merged into one turn.
TurnSeparator == <<"\n", "\n">>

\* The literal "Start processing." as one element.
StartProcessing == <<"Start processing.">>

\* msg.role === 'assistant' ? 'model' : 'user'
geminiRole(msg) == IF msg.role = "assistant" THEN "model" ELSE "user"

\* config.messages.filter(m => m.role !== 'system')
chatTurnsOf(messages) ==
    LET NotSystem(m) == m.role # "system" IN SelectSeq(messages, NotSystem)

\* config.messages.find(m => m.role === 'system')?.content; <<>> is undefined.
systemInstructionOf(messages) ==
    LET IsSystem(m) == m.role = "system"
        found == SelectSeq(messages, IsSystem)
    IN IF found = <<>> THEN <<>> ELSE <<found[1].content>>

\* (mutant) the text of the last turn is replaced by the content of the message.
ReplaceText(text, content) == content

\* last.parts[0].text += "\n\n" + msg.content
AppendText(text, content) == text \o TurnSeparator \o content

\* The body of `for (const msg of chatTurns)` on the turns built so far.
PushTurn(geminiContents, msg) ==
    LET n == Len(geminiContents)
    IN IF n > 0 /\ geminiContents[n].role = geminiRole(msg)
       THEN [geminiContents EXCEPT ![n].text = AppendText(@, msg.content)]
       ELSE Append(geminiContents, [role |-> geminiRole(msg), text |-> msg.content])

RECURSIVE TurnsFrom(_, _)
TurnsFrom(chatTurns, geminiContents) ==
    IF chatTurns = <<>> THEN geminiContents
    ELSE TurnsFrom(Tail(chatTurns), PushTurn(geminiContents, Head(chatTurns)))

\* geminiContents as generateContent receives it.
geminiContentsOf(messages) ==
    LET built == TurnsFrom(chatTurnsOf(messages), <<>>)
    IN IF Len(built) = 0 THEN <<[role |-> "user", text |-> StartProcessing]>> ELSE built

\* The request is not built yet.
NoRequest == [sent |-> FALSE, systemInstruction |-> <<>>, contents |-> <<>>]

\* callGoogleAI up to the call of generateContent.
t_callGoogleAI ==
    /\ ~t_request.sent
    /\ t_request' = [sent |-> TRUE,
                     systemInstruction |-> systemInstructionOf(t_messages),
                     contents |-> geminiContentsOf(t_messages)]
    /\ UNCHANGED t_messages

\* role is any string: the three roles the services use, and another one.
MessageRoles == {"system", "user", "assistant", "tool"}

MessageContents == {<<"a">>, <<"b">>}

TurnsIdle == t_messages = <<>> /\ t_request = NoRequest

TurnsStart ==
    /\ \E n \in 0..MaxMessages : t_messages \in [1..n -> [role : MessageRoles, content : MessageContents]]
    /\ t_request = NoRequest

\* ------------------------------------------------------------------------
\* The results view of the batch App: edits of the ledgers (App.tsx)
\* ------------------------------------------------------------------------
\* The merged table and the chat are rendered when isMergedView && mergedResult,
\* the tables of the chunks when !isMergedView, one per completed chunk with a
\* result; index is the row of the table the user edits. The chunks of the
\* list are taken to have distinct ids: index stands for the id.

EditFields == {"debit", "description"}

\* What the user types into a cell.
EditValues(field) == IF field = "debit" THEN {7} ELSE {<<"z">>}

\* updatedTx[index] = { ...updatedTx[index], [field]: value }
WithCell(ledger, index, field, value) ==
    [ledger EXCEPT !.transactions =
        [@ EXCEPT ![index] = IF field = "debit" THEN [@ EXCEPT !.debit = value]
                             ELSE [@ EXCEPT !.description = value]]]

\* What the user did last in the results view, and mergedResult before it.
NoAction == [name |-> "none", before |-> NoResult]

Did(name) == l_last' = [name |-> name, before |-> m_mergedResult]

\* handleMergeResults, from the button `Gộp`.
l_handleMergeResults ==
    /\ m_handleMergeResults
    /\ Did("merge")

\* The button of the separate view: setIsMergedView(false).
l_showSeparate ==
    /\ m_isMergedView
    /\ m_isMergedView' = FALSE
    /\ Did("separate")
    /\ UNCHANGED <<m_chunks, m_openingBalance, m_mergedResult, m_warning>>

\* handleTransactionUpdate(index, field, value): a cell of the merged table,
\* or the chat's onUpdateTransaction.
l_handleTransactionUpdate(index, field, value) ==
    /\ m_isMergedView /\ m_mergedResult # NoResult
    /\ index \in 1..Len(m_mergedResult.transactions)
    /\ m_mergedResult' = WithCell(m_mergedResult, index, field, value)
    /\ Did("edit")
    /\ UNCHANGED <<m_chunks, m_openingBalance, m_warning, m_isMergedView>>

\* updateChunkResult / updateChunkResultString(chunkId, index, field, value):
\* a cell of the table of chunk k.
l_updateChunkResult(k, index, field, value) ==
    /\ ~m_isMergedView
    /\ k \in 1..Len(m_chunks)
    /\ m_chunks[k].status = "completed" /\ m_chunks[k].result # NoResult
    /\ index \in 1..Len(m_chunks[k].result.transactions)
    /\ m_chunks' = [j \in 1..Len(m_chunks) |->
                        IF m_chunks[j].index = m_chunks[k].index /\ m_chunks[j].result # NoResult
                        THEN [m_chunks[j] EXCEPT !.result = WithCell(@, index, field, value)]
                        ELSE m_chunks[j]]
    /\ Did("chunk edit")
    /\ UNCHANGED <<m_openingBalance, m_mergedResult, m_warning, m_isMergedView>>

\* The chat's onTransactionAdd: () => {}.
l_onTransactionAdd ==
    /\ m_isMergedView /\ m_mergedResult # NoResult
    /\ Did("add")
    /\ UNCHANGED mvars

\* The chat's onUndoLastChange: () => {}.
l_onUndoLastChange ==
    /\ m_isMergedView /\ m_mergedResult # NoResult
    /\ Did("undo")
    /\ UNCHANGED mvars

LedgerIdle == l_last = NoAction

\* Two transactions of different days.
LedgerTxs == {Tx(Jan1, 500000, 0, <<>>, <<"a">>), Tx(Jan2, 0, 200000, <<>>, <<"b">>)}

\* Completed chunks with at most one transaction each, nothing merged yet.
LedgerStart ==
    /\ \E n \in 1..MaxMergeChunks : \E frs \in [1..n -> SeqsUpTo(LedgerTxs, 1)] :
          m_chunks = [k \in 1..n |-> Completed(k, frs[k], 0, 0, TRUE)]
    /\ m_openingBalance = <<>>
    /\ m_mergedResult = NoResult
    /\ m_warning = NoWarning
    /\ m_isMergedView = FALSE
    /\ l_last = NoAction

PureStart ==
    SignatureIdle /\ MergeIdle /\ SplitIdle /\ RepairIdle /\ TurnsIdle /\ LedgerIdle

\* ------------------------------------------------------------ specifications

NextDispatch ==
    \/ callAIUnified /\ UNCHANGED <<bvars, avars, pvars>>
    \/ callGoogleAIResolves /\ UNCHANGED <<bvars, avars, pvars>>
    \/ \E e \in ErrorClasses : callGoogleAIRejects(e) /\ UNCHANGED <<bvars, avars, pvars>>
    \/ BackoffElapses /\ UNCHANGED <<bvars, avars, pvars>>
    \/ ProviderNeverResponds /\ UNCHANGED <<bvars, avars, pvars>>

InitDispatch == keys \in 0..MaxKeys /\ DispatchIdle /\ BatchStart /\ SingleStart /\ PureStart

SpecDispatch == InitDispatch /\ [][NextDispatch]_vars

\* Every step the runtime or a responding provider owes is taken.
FairDispatch == SpecDispatch /\ WF_vars(NextDispatch)

NextBatch ==
    \/ \E n \in 1..MaxFiles : b_handleFileChange(n) /\ UNCHANGED <<dvars, avars, pvars>>
    \/ b_handleRemoveFile /\ UNCHANGED <<dvars, avars, pvars>>
    \/ \E k \in 1..MaxChunks : b_toggleChunkSelection(k) /\ UNCHANGED <<dvars, avars, pvars>>
    \/ b_handleExtractText /\ UNCHANGED <<dvars, avars, pvars>>
    \/ \E e \in 1..Len(b_extracts) : \E x \in Extractions(b_extracts[e]) :
          b_extractResolves(e, x) /\ UNCHANGED <<dvars, avars, pvars>>
    \/ \E e \in 1..MaxExtracts : b_extractRejects(e) /\ UNCHANGED <<dvars, avars, pvars>>
    \/ b_handleSubmit /\ UNCHANGED <<dvars, avars, pvars>>
    \/ \E r \in 1..MaxSubmits : b_ocrResolves(r) /\ UNCHANGED <<dvars, avars, pvars>>
    \/ \E r \in 1..MaxSubmits, o \in Outcomes : b_chunkSettles(r, o) /\ UNCHANGED <<dvars, avars, pvars>>

InitBatch == keys = 1 /\ DispatchIdle /\ BatchStart /\ SingleStart /\ PureStart

\* The chunk pipeline: the handlers and the completions of their awaits. The
\* upload interval is left to SpecUpload: its callback writes uploadState and
\* uploadProgress only, and no handler reads either.
SpecBatch == InitBatch /\ [][NextBatch]_vars

NextUpload ==
    \/ NextBatch
    \/ b_uploadTick /\ UNCHANGED <<dvars, avars, pvars>>

\* The batch App with the upload interval running.
SpecUpload == InitBatch /\ [][NextUpload]_vars

NextSingle ==
    \/ \E n \in 1..MaxFiles : a_handleFileChange(n) /\ UNCHANGED <<dvars, bvars, pvars>>
    \/ a_handleRemoveFile /\ UNCHANGED <<dvars, bvars, pvars>>
    \/ a_uploadTick /\ UNCHANGED <<dvars, bvars, pvars>>
    \/ a_handleCancel /\ UNCHANGED <<dvars, bvars, pvars>>
    \/ a_editStatement /\ UNCHANGED <<dvars, bvars, pvars>>
    \/ a_progressTick /\ UNCHANGED <<dvars, bvars, pvars>>
    \/ a_finishTimeout /\ UNCHANGED <<dvars, bvars, pvars>>
    \/ a_handleExtractText /\ UNCHANGED <<dvars, bvars, pvars>>
    \/ \E c \in 1..Len(a_calls), x \in FileContents :
          a_extractResolves(c, x) /\ UNCHANGED <<dvars, bvars, pvars>>
    \/ \E c \in 1..Len(a_calls) : a_ocrResolves(c) /\ UNCHANGED <<dvars, bvars, pvars>>
    \/ \E c \in 1..Len(a_calls) : a_extractRejects(c) /\ UNCHANGED <<dvars, bvars, pvars>>
    \/ a_handleSubmit /\ UNCHANGED <<dvars, bvars, pvars>>
    \/ \E c \in 1..Len(a_calls), mismatch \in BOOLEAN :
          a_submitResolves(c, mismatch) /\ UNCHANGED <<dvars, bvars, pvars>>
    \/ \E c \in 1..Len(a_calls) : a_submitRejects(c) /\ UNCHANGED <<dvars, bvars, pvars>>

\* useState(() => localStorage.getItem('statementContent') || ''): what an
\* earlier session left in the textarea.
InitSingle ==
    /\ keys = 1 /\ DispatchIdle /\ BatchStart /\ PureStart
    /\ SingleIdle /\ a_statementContent \in {"", "typed"}

SpecSingle == InitSingle /\ [][NextSingle]_vars

\* A call of processStatement or of the extraction settles.
a_callSettles ==
    \E c \in 1..Len(a_calls) :
        \/ \E x \in FileContents : a_extractResolves(c, x)
        \/ a_ocrResolves(c)
        \/ a_extractRejects(c)
        \/ \E mismatch \in BOOLEAN : a_submitResolves(c, mismatch)
        \/ a_submitRejects(c)

\* The single-document App when every awaited call settles and the timeout
\* of finishProgress fires; the user is free to do nothing.
FairSingle ==
    /\ SpecSingle
    /\ WF_vars(a_callSettles /\ UNCHANGED <<dvars, bvars, pvars>>)
    /\ WF_vars(a_finishTimeout /\ UNCHANGED <<dvars, bvars, pvars>>)

NextSignature ==
    s_createTxSignature /\ UNCHANGED <<dvars, bvars, avars, mvars, cvars, jvars, tvars, lvars>>

InitSignature ==
    /\ keys = 1 /\ DispatchIdle /\ BatchStart /\ SingleStart /\ MergeIdle /\ SplitIdle /\ RepairIdle
    /\ TurnsIdle /\ LedgerIdle
    /\ s_a \in SigTxs /\ s_b \in SigTxs /\ s_sig = NoSig

SpecSignature == InitSignature /\ [][NextSignature]_vars

NextMerge ==
    m_handleMergeResults /\ UNCHANGED <<dvars, bvars, avars, svars, cvars, jvars, tvars, lvars>>

InitMerge ==
    /\ keys = 1 /\ DispatchIdle /\ BatchStart /\ SingleStart /\ SignatureIdle /\ SplitIdle /\ RepairIdle
    /\ TurnsIdle /\ LedgerIdle
    /\ MergeStart

SpecMerge == InitMerge /\ [][NextMerge]_vars

NextSplit ==
    c_handleExtractText /\ UNCHANGED <<dvars, bvars, avars, svars, mvars, jvars, tvars, lvars>>

InitSplit ==
    /\ keys = 1 /\ DispatchIdle /\ BatchStart /\ SingleStart /\ SignatureIdle /\ MergeIdle /\ RepairIdle
    /\ TurnsIdle /\ LedgerIdle
    /\ SplitStart

SpecSplit == InitSplit /\ [][NextSplit]_vars

NextRepair ==
    j_cleanAndParseJSON /\ UNCHANGED <<dvars, bvars, avars, svars, mvars, cvars, tvars, lvars>>

InitRepair ==
    /\ keys = 1 /\ DispatchIdle /\ BatchStart /\ SingleStart /\ SignatureIdle /\ MergeIdle
    /\ SplitIdle /\ RepairStart /\ TurnsIdle /\ LedgerIdle

SpecRepair == InitRepair /\ [][NextRepair]_vars

NextTurns ==
    t_callGoogleAI /\ UNCHANGED <<dvars, bvars, avars, svars, mvars, cvars, jvars, lvars>>

InitTurns ==
    /\ keys = 1 /\ DispatchIdle /\ BatchStart /\ SingleStart /\ SignatureIdle /\ MergeIdle
    /\ SplitIdle /\ RepairIdle /\ LedgerIdle /\ TurnsStart

\* callGoogleAI builds the request of any list of messages.
SpecTurns == InitTurns /\ [][NextTurns]_vars

NextLedger ==
    \/ l_handleMergeResults /\ UNCHANGED <<dvars, bvars, avars, svars, cvars, jvars, tvars>>
    \/ l_showSeparate /\ UNCHANGED <<dvars, bvars, avars, svars, cvars, jvars, tvars>>
    \/ \E index \in 1..MaxEditRows, field \in EditFields : \E value \in EditValues(field) :
          l_handleTransactionUpdate(index, field, value)
              /\ UNCHANGED <<dvars, bvars, avars, svars, cvars, jvars, tvars>>
    \/ \E k \in 1..MaxMergeChunks, index \in 1..MaxEditRows, field \in EditFields :
          \E value \in EditValues(field) :
              l_updateChunkResult(k, index, field, value)
                  /\ UNCHANGED <<dvars, bvars, avars, svars, cvars, jvars, tvars>>
    \/ l_onTransactionAdd /\ UNCHANGED <<dvars, bvars, avars, svars, cvars, jvars, tvars>>
    \/ l_onUndoLastChange /\ UNCHANGED <<dvars, bvars, avars, svars, cvars, jvars, tvars>>

InitLedger ==
    /\ keys = 1 /\ DispatchIdle /\ BatchStart /\ SingleStart /\ SignatureIdle /\ SplitIdle
    /\ RepairIdle /\ TurnsIdle /\ LedgerStart

\* The results view of the batch App: merging, and the edits of the merged
\* ledger and of the ledgers of the chunks.
SpecLedger == InitLedger /\ [][NextLedger]_vars

\* ------------------------------------------------------------------------
\* Claims about the dispatcher
\* ------------------------------------------------------------------------

\* The pairs the loops can reach with the keys configured.
ActivePairs == {p \in Pairs : p[2] <= keys}

\* The spec's classes (4.2): a quota error is one the quota patterns match, a
\* network error one that only the network patterns match, a fatal error one
\* that neither list matches.
QuotaError(e) == isQuotaError(e)

NetworkError(e) == isNetworkError(e) /\ ~isQuotaError(e)

FatalError(e) == e \in ErrorClasses /\ ~isNetworkError(e) /\ ~isQuotaError(e)

Retryable(e) == e \in ErrorClasses /\ (isNetworkError(e) \/ isQuotaError(e))

\* C1: once an invocation has failed with a fatal error (neither network nor
\* quota), the dispatch has thrown that error and no later (model, key) pair
\* has been invoked.
C1_FatalAbortsDispatch ==
    \A p \in Pairs :
        FatalError(last[p]) =>
            /\ d_pc = "threw"
            /\ d_thrown.last.class = "fatal"
            /\ \A q \in Pairs : Before(p, q) => tries[q] = 0

\* C2: a successful invocation ends the dispatch: its text is what
\* callAIUnified returned, it is the only successful invocation, and no pair
\* after it was ever invoked.
C2_FirstSuccessReturned ==
    /\ \A p \in Pairs :
        last[p] = "ok" =>
            /\ d_pc = "returned"
            /\ d_result = [model |-> p[1], key |-> p[2]]
            /\ \A q \in Pairs : Before(p, q) => tries[q] = 0
            /\ \A q \in Pairs : q # p => last[q] # "ok"
    /\ d_pc = "returned" => \E p \in ActivePairs : last[p] = "ok"

\* C2's scenario: pro fails with a quota error on both keys, flash fails on
\* key 1 and succeeds on key 2, and the dispatch returned flash's text.
C2_Witness ==
    /\ keys = 2
    /\ last[<<1, 1>>] = "quota"
    /\ last[<<1, 2>>] = "quota"
    /\ last[<<2, 1>>] \in ErrorClasses
    /\ last[<<2, 2>>] = "ok"
    /\ d_pc = "returned"
    /\ d_result = [model |-> 2, key |-> 2]

\* C3: pairs are invoked in lexicographic order, models first (pro, then
\* flash), then keys: a pair is invoked only when every pair before it was
\* invoked and failed; keys that are not configured are never used.
C3_LexicographicOrder ==
    /\ \A p \in ActivePairs, q \in Pairs :
        (Before(p, q) /\ tries[q] > 0) => (tries[p] > 0 /\ last[p] \in ErrorClasses)
    /\ \A q \in Pairs : tries[q] > 0 => q \in ActivePairs

\* Flash key 2 was invoked (after pro on both keys and flash on key 1).
C3_Witness ==
    /\ keys = 2
    /\ tries[<<2, 2>>] > 0

\* C4: at most 3 attempts per pair; an attempt after the first on a pair is
\* made only after a NetworkError on it, and never after a QuotaError.
C4_RetryOnlyAfterNetworkError ==
    [][\A p \in Pairs :
          /\ tries'[p] <= MAX_KEY_ATTEMPTS
          /\ (tries'[p] > tries[p] /\ tries[p] >= 1) =>
                (NetworkError(last[p]) /\ ~QuotaError(last[p]))]_vars

\* C5: when every pair has failed with a retryable error and no retry is
\* pending, callAIUnified has thrown the all-failed error carrying the error
\* of the last attempt and has returned nothing; no pair is ever invoked more
\* than 3 times, and nothing is returned unless an invocation succeeded.
C5_ExhaustedCarriesLastError ==
    /\ \A p \in Pairs : tries[p] <= MAX_KEY_ATTEMPTS
    /\ (/\ keys > 0
        /\ d_pc # "delay"
        /\ \A p \in ActivePairs : Retryable(last[p]))
       => /\ d_pc = "threw"
          /\ d_thrown.kind = "AllFailed"
          /\ d_thrown.last = lastError
          /\ lastError.model = NModels
          /\ lastError.key = keys
          /\ lastError.class = last[<<NModels, keys>>]
          /\ d_result = NoText
    /\ d_result # NoText => \E p \in ActivePairs : last[p] = "ok"

\* Every pair failed with a retryable error, with two keys, the last one
\* after three network errors.
C5_Witness ==
    /\ keys = 2
    /\ d_pc = "threw"
    /\ \A p \in ActivePairs : Retryable(last[p])
    /\ tries[<<2, 2>>] = MAX_KEY_ATTEMPTS

\* C6: every invocation that is in flight ends (answered, or cut off by a
\* timeout), and the dispatch terminates.
C6_EveryAttemptEnds ==
    /\ \A p \in Pairs : (last[p] = "pending") ~> (last[p] # "pending")
    /\ <>(d_pc \in {"returned", "threw"})

\* ------------------------------------------------------------------------
\* Claims about the batch App
\* ------------------------------------------------------------------------

\* The runs of handleSubmit whose selectedChunks hold the chunk id.
RunsOn(id) ==
    {r \in 1..Len(b_runs) : \E k \in 1..Len(b_runs[r].sel) : b_runs[r].sel[k].id = id}

Settled(c) ==
    \/ c.status = "completed" /\ c.result # "none"
    \/ c.status = "error" /\ c.error # "none"

\* C7: a run of handleSubmit ends only past its last selected chunk, and once
\* the runs that selected a chunk have ended the chunk is completed with its
\* result, or failed with an error message, whatever the outcomes of the
\* chunks before it: a failure is recorded on its chunk and does not end the
\* loop.
C7_FailedChunkRecordedLoopContinues ==
    /\ \A r \in 1..Len(b_runs) :
        b_runs[r].pc = "done" => b_runs[r].pos = Len(b_runs[r].sel)
    /\ \A j \in 1..Len(b_chunks) :
        (/\ RunsOn(b_chunks[j].id) # {}
         /\ \A r \in RunsOn(b_chunks[j].id) : b_runs[r].pc = "done")
        => Settled(b_chunks[j])

\* A run of two chunks has ended: the first failed and carries the message,
\* the second was processed after it and is completed.
C7_Witness ==
    \E r \in 1..Len(b_runs) :
        /\ b_runs[r].pc = "done"
        /\ Len(b_runs[r].sel) = 2
        /\ Len(b_chunks) = 2
        /\ b_chunks[1].id = b_runs[r].sel[1].id
        /\ b_chunks[2].id = b_runs[r].sel[2].id
        /\ b_chunks[1].id # b_chunks[2].id
        /\ b_chunks[1].status = "error" /\ b_chunks[1].error = "msg"
        /\ b_chunks[2].status = "completed" /\ b_chunks[2].result = "resp"

\* C8: at most one chunk is in progress and at most one request is in flight.
C8_StrictlySequential ==
    /\ Cardinality({k \in 1..Len(b_chunks) : b_chunks[k].status = "processing"}) <= 1
    /\ Cardinality(InFlight) <= 1

\* C10: after a reset, until the next user action, the upload state and the
\* loading state are idle and the upload progress stays at 0: no timer
\* callback writes state.
C10_IdleAfterReset ==
    b_afterReset =>
        /\ b_uploadState = "idle"
        /\ b_uploadProgress = 0
        /\ b_loadingState = "idle"

\* ------------------------------------------------------------------------
\* Claims about the single-document App
\* ------------------------------------------------------------------------

\* C9: after handleCancel, until the next user action, the statement content,
\* the result, the error and the opening balance stay as the cancel left
\* them: a call that was in flight writes none of them when it completes.
C9_LateCompletionIgnored ==
    a_afterCancel =>
        /\ a_statementContent = ""
        /\ a_result = "none"
        /\ a_error = "none"
        /\ a_openingBalance = ""

\* ------------------------------------------------------------------------
\* Claims about the merge
\* ------------------------------------------------------------------------

\* The normalized code as the specification defines it: the trimmed
\* lower-cased code, or without a code the first 30 characters of the
\* lower-cased description without its blanks.
SpecNormalizedCode(tx) ==
    IF tx.transactionCode # <<>>
    THEN trim(toLowerCase(tx.transactionCode))
    ELSE substring0(StripSpaces(toLowerCase(tx.description)), DESC_PREFIX)

SameKey(a, b) ==
    /\ a.date = b.date
    /\ a.debit = b.debit
    /\ a.credit = b.credit
    /\ SpecNormalizedCode(a) = SpecNormalizedCode(b)

\* C13: the signatures of two transactions are equal if and only if their
\* dates, debits, credits and normalized codes are equal.
C13_SignatureIffSameKey ==
    s_sig # NoSig => ((s_sig[1] = s_sig[2]) <=> SameKey(s_a, s_b))

\* The valid transactions of the ticked, completed chunks, in the order of the
\* chunks and, within a chunk, of the fragment.
RECURSIVE Candidates(_)
Candidates(sortedChunks) ==
    IF sortedChunks = <<>> THEN <<>>
    ELSE SelectSeq(Head(sortedChunks).result.transactions, IsValidTx)
            \o Candidates(Tail(sortedChunks))

MergeCandidates == Candidates(SortByIndex(ChunksToMerge(m_chunks)))

\* The candidates no earlier candidate has the fingerprint of.
FirstOccurrences(c) ==
    {c[p] : p \in {q \in 1..Len(c) :
                      \A r \in 1..(q - 1) : createTxSignature(c[r]) # createTxSignature(c[q])}}

\* C11: after a merge no two transactions of the merged list have the same
\* fingerprint, whichever fragments they came from, and the merged list holds,
\* for every fingerprint among the candidates, the first candidate with it in
\* chunk-index order and nothing else.
C11_NoDuplicateFirstKept ==
    m_isMergedView =>
        LET txs == m_mergedResult.transactions
        IN /\ \A i, j \in 1..Len(txs) :
                 createTxSignature(txs[i]) = createTxSignature(txs[j]) => i = j
           /\ {txs[i] : i \in 1..Len(txs)} = FirstOccurrences(MergeCandidates)

\* A merge dropped a transaction of the second chunk whose fingerprint a
\* different transaction of the first chunk has.
C11_Witness ==
    /\ m_isMergedView
    /\ Len(m_chunks) = 2
    /\ \E i \in 1..Len(m_chunks[1].result.transactions) :
       \E j \in 1..Len(m_chunks[2].result.transactions) :
          LET a == m_chunks[1].result.transactions[i]
              b == m_chunks[2].result.transactions[j]
          IN /\ a # b
             /\ createTxSignature(a) = createTxSignature(b)
             /\ \E k \in 1..Len(m_mergedResult.transactions) : m_mergedResult.transactions[k] = a
             /\ \A k \in 1..Len(m_mergedResult.transactions) : m_mergedResult.transactions[k] # b

\* The lists of transactions a merge of the chunks can give.
MergedTransactions(chs) ==
    {m.result.transactions : m \in MergeOutcomes(chs, m_openingBalance)}

\* Two ticked, completed chunks that hold the same fragment.
SameFragmentTwice ==
    /\ Len(m_chunks) = 2
    /\ ChunksToMerge(m_chunks) = m_chunks
    /\ m_chunks[1].result = m_chunks[2].result

\* C12: the merge of a fragment given twice has the transactions of the merge
\* of that fragment given once.
C12_MergeIdempotent ==
    (m_isMergedView /\ SameFragmentTwice) =>
        /\ m_mergedResult.transactions \in MergedTransactions(<<m_chunks[1]>>)
        /\ MergedTransactions(m_chunks) = MergedTransactions(<<m_chunks[1]>>)

\* A fragment of two different transactions was merged with itself and two
\* transactions came out.
C12_Witness ==
    /\ m_isMergedView
    /\ SameFragmentTwice
    /\ Len(m_chunks[1].result.transactions) = 2
    /\ Len(m_mergedResult.transactions) = 2
    /\ m_mergedResult.transactions[1] # m_mergedResult.transactions[2]

\* The number the claim sorts a date by: its timestamp, or zero for a date
\* that does not parse.
DateOrEpoch(tx) == OrZero(parseDate(tx.date))

\* C14: after a merge the merged list is in non-decreasing order of date, a
\* date that does not parse counting as the epoch and so standing at the
\* start.
C14_SortedByDate ==
    m_isMergedView =>
        \A i, j \in 1..Len(m_mergedResult.transactions) :
            i < j => DateOrEpoch(m_mergedResult.transactions[i])
                        <= DateOrEpoch(m_mergedResult.transactions[j])

\* The fragments the merge takes, in chunk order.
MergedFragments ==
    LET sortedChunks == SortByIndex(ChunksToMerge(m_chunks))
    IN [k \in 1..Len(sortedChunks) |-> sortedChunks[k].result]

\* The opening balance of the first fragment that reports one, 0 without one.
FirstNonZeroOpening(frs) ==
    IF \E k \in 1..Len(frs) : frs[k].openingBalance # 0
    THEN frs[CHOOSE k \in 1..Len(frs) :
                /\ frs[k].openingBalance # 0
                /\ \A j \in 1..(k - 1) : frs[j].openingBalance = 0].openingBalance
    ELSE 0

\* C15: after a merge the opening balance of the merged ledger is the value
\* the user entered when there is one, and otherwise the opening balance of
\* the first merged fragment, in chunk order, whose opening balance is not
\* zero, or 0 when every fragment reports zero.
C15_OpeningBalanceResolved ==
    m_isMergedView =>
        m_mergedResult.openingBalance =
            IF m_openingBalance # <<>>
            THEN OrZero(parseInt(StripDots(m_openingBalance)))
            ELSE FirstNonZeroOpening(MergedFragments)

\* The ending balance of the last fragment that reports one, 0 without one.
LastNonZeroEnding(frs) ==
    IF \E k \in 1..Len(frs) : frs[k].endingBalance # 0
    THEN frs[CHOOSE k \in 1..Len(frs) :
                /\ frs[k].endingBalance # 0
                /\ \A j \in (k + 1)..Len(frs) : frs[j].endingBalance = 0].endingBalance
    ELSE 0

\* C16: after a merge the ending balance of the merged ledger is the ending
\* balance stated by the last merged fragment, in chunk order, whose ending
\* balance is not zero, whatever the totals of the transactions are, and a
\* warning names that same value as the stated figure.
C16_EndingBalanceStated ==
    m_isMergedView =>
        /\ m_mergedResult.endingBalance = LastNonZeroEnding(MergedFragments)
        /\ m_warning # NoWarning => m_warning.detected = LastNonZeroEnding(MergedFragments)

\* The tolerance the claim gives.
ONE_UNIT == 1

\* The ending balance the last merged fragment states.
StatedEnding == MergedFragments[Len(MergedFragments)].endingBalance

\* Opening balance plus debits minus credits of the merged ledger.
CalculatedEnding ==
    m_mergedResult.openingBalance + totalDebit(m_mergedResult.transactions)
        - totalCredit(m_mergedResult.transactions)

\* C17: after a merge there is a warning exactly when the stated ending
\* balance is not zero and differs from opening + debits - credits by more
\* than 1 currency unit; in every other case no warning is left, an earlier
\* one included.
C17_WarningIffBeyondOneUnit ==
    m_isMergedView =>
        ((m_warning # NoWarning) <=>
            (StatedEnding # 0 /\ Abs(CalculatedEnding - StatedEnding) > ONE_UNIT))

\* ------------------------------------------------------------------------
\* Claims about the splitting
\* ------------------------------------------------------------------------

IsTextChunk(c) == c.type = "text"

\* The header block a chunk after the first starts with.
HeaderBlock == HeaderOpen \o NL \o headerTextOf(c_allLines) \o NL \o HeaderClose \o NL \o NL

\* The lines of the body of the k-th text chunk: of its data, without the
\* header block when it is not the first.
BodyLines(texts, k) ==
    split(IF k = 1 THEN texts[k].data
          ELSE SubSeq(texts[k].data, Len(HeaderBlock) + 1, Len(texts[k].data)),
          "\n")

\* C18: the splitting partitions the source lines. The bodies of the text
\* chunks it makes have chunkSize lines each, the last one between 1 and
\* chunkSize; put one after the other in chunk order they are the source
\* lines, none dropped or repeated; the body of the first text chunk starts
\* with the header lines.
C18_SplitPartitionsLines ==
    [][c_handleExtractText =>
        LET size == chunkSizeOf(c_chunkStrategy, c_allLines)
            texts == SelectSeq(c_chunks', IsTextChunk)
            bodies == [k \in 1..Len(texts) |-> BodyLines(texts, k)]
        IN /\ \A k \in 1..Len(texts) :
                 /\ k < Len(texts) => Len(bodies[k]) = size
                 /\ Len(bodies[k]) \in 1..size
           /\ Flatten(bodies) = c_allLines
           /\ texts # <<>> =>
                 slice(bodies[1], 0, HEADER_ROWS) = slice(c_allLines, 0, Least(HEADER_ROWS, size))
    ]_vars

\* 61 lines were split into three text chunks that follow an image chunk.
C18_Witness ==
    /\ c_split
    /\ Len(c_allLines) = 61
    /\ Len(c_chunks) = 4
    /\ c_chunks[1].type = "image"
    /\ \A k \in 2..4 : c_chunks[k].type = "text"

\* C19: every text chunk the splitting makes, except the first, is the header
\* block (the first 20 source lines between the HEADER CONTEXT and END HEADER
\* lines) followed by its own body lines, and the first text chunk is its
\* body lines alone.
C19_HeaderOnLaterChunks ==
    [][c_handleExtractText =>
        LET size == chunkSizeOf(c_chunkStrategy, c_allLines)
            texts == SelectSeq(c_chunks', IsTextChunk)
            Own(k) == join(slice(c_allLines, (k - 1) * size, k * size), NL)
            First20 == join(SubSeq(c_allLines, 1, Least(20, Len(c_allLines))), NL)
        IN \A k \in 1..Len(texts) :
              texts[k].data =
                  IF k = 1 THEN Own(k)
                  ELSE <<"--- HEADER CONTEXT (INFO ONLY - DO NOT EXTRACT) ---">> \o NL
                          \o First20 \o NL \o <<"--- END HEADER ---">> \o NL \o NL \o Own(k)
    ]_vars

\* A text of more than 50 lines was split in two, and the second chunk starts
\* with the header line while the first does not.
C19_Witness ==
    /\ c_split
    /\ Len(c_allLines) > 50
    /\ Len(c_chunks) = 2
    /\ c_chunks[1].type = "text" /\ c_chunks[2].type = "text"
    /\ Head(c_chunks[2].data) = "--- HEADER CONTEXT (INFO ONLY - DO NOT EXTRACT) ---"
    /\ Head(c_chunks[1].data) # "--- HEADER CONTEXT (INFO ONLY - DO NOT EXTRACT) ---"

\* ------------------------------------------------------------------------
\* Claims about the repair of JSON
\* ------------------------------------------------------------------------

\* The contents of the strings that are values in a parsed value, in order.
RECURSIVE StringValues(_)
RECURSIVE StringValuesOf(_, _)
StringValues(value) ==
    IF value.t = "str" THEN <<value.v>> ELSE StringValuesOf(value.t, value.v)

StringValuesOf(t, parts) ==
    IF parts = <<>> THEN <<>>
    ELSE StringValues(IF t = "obj" THEN Head(parts)[2] ELSE Head(parts))
            \o StringValuesOf(t, Tail(parts))

\* C20: when cleanAndParseJSON returns what JSON.parse made of the repaired
\* text, the strings of the parsed object are the descriptions of the raw
\* text, character for character, braces, colons and commas included.
C20_RepairKeepsStrings ==
    (j_result.ok /\ j_result.via = "repaired") => StringValues(j_result.value) = j_descs

\* The elements of the transactions array of a parsed object.
TransactionsOf(value) == value.v[1][2].v

\* The texts that end inside an element of the transactions array.
TruncatedShapes == {"truncated", "truncated in a string"}

\* C21: a text that ends inside an element of the transactions array, after
\* complete elements whose descriptions are plain letters, parses, and the
\* transactions array of the parsed object holds the complete elements and
\* nothing else: one complete element followed by a partial one gives one
\* transaction.
C21_TruncationKeepsCompleteElements ==
    (/\ j_result # NotParsed
     /\ j_shape \in TruncatedShapes
     /\ \A k \in 1..Len(j_descs) : j_descs[k] = <<"a">>)
        => /\ j_result.ok
           /\ Len(TransactionsOf(j_result.value)) = Len(j_descs)
           /\ StringValues(j_result.value) = j_descs

\* ------------------------------------------------------------------------
\* Claims about the chunks of the batch App
\* ------------------------------------------------------------------------

\* The step is taken by run r of handleSubmit: its start, or the completion
\* of one of its awaits.
StepOfRun(r) ==
    /\ r \in 1..Len(b_runs')
    /\ r > Len(b_runs) \/ b_runs'[r] # b_runs[r]

\* Chunk c is one of the selectedChunks of run.
SelectedIn(run, c) ==
    \E i \in 1..Len(run.sel) : run.sel[i].id = c.id /\ run.sel[i].index = c.index

\* The step leaves the list of chunks in place: no extraction replaced it.
SameChunks ==
    /\ Len(b_chunks') = Len(b_chunks)
    /\ \A k \in 1..Len(b_chunks) :
        b_chunks'[k].id = b_chunks[k].id /\ b_chunks'[k].index = b_chunks[k].index

\* C23: when a run of handleSubmit ends and every chunk it selected has
\* failed, the run reports an error: error is set.
C23_AllFailedReportsError ==
    [][\A r \in 1..Len(b_runs) :
         (/\ StepOfRun(r)
          /\ b_runs'[r].pc = "done"
          /\ \A i \in 1..Len(b_runs'[r].sel) :
                \E k \in 1..Len(b_chunks') :
                    /\ b_chunks'[k].id = b_runs'[r].sel[i].id
                    /\ b_chunks'[k].status = "error")
         => b_error' # "none"]_vars

\* The status changes a chunk may make in one step: idle to processing,
\* processing to completed or to error.
StatusPath == {<<"idle", "processing">>, <<"processing", "completed">>, <<"processing", "error">>}

\* C24: the status of a chunk changes only from idle to processing and from
\* processing to completed or error, except that the start of a run resets
\* the chunks it selects; and at all times a completed chunk has a result, a
\* failed chunk has an error message and no result.
C24_StatusLifecycle ==
    [][/\ SameChunks =>
            \A k \in 1..Len(b_chunks) :
                \/ b_chunks'[k].status = b_chunks[k].status
                \/ <<b_chunks[k].status, b_chunks'[k].status>> \in StatusPath
                \/ Len(b_runs') > Len(b_runs) /\ b_chunks[k].isSelected
       /\ \A k \in 1..Len(b_chunks') :
            /\ b_chunks'[k].status = "completed" => b_chunks'[k].result # "none"
            /\ b_chunks'[k].status = "error" =>
                    b_chunks'[k].error # "none" /\ b_chunks'[k].result = "none"]_vars

\* C27: the chunks of one extraction have distinct ids.
C27_ChunkIdsDistinct ==
    \A k, l \in 1..Len(b_chunks) : k # l => b_chunks[k].id # b_chunks[l].id

\* What a run of handleSubmit may write on a chunk.
RunFields(c) == <<c.status, c.result, c.error, c.isCheckedForMerge>>

\* C30: a step of a run of handleSubmit leaves status, result, error and
\* merge flag of every chunk the run did not select as they were, and the
\* start of a run leaves every chunk it selects without result and error.
C30_RunTouchesSelectedOnly ==
    [][\A r \in 1..Len(b_runs') :
         (StepOfRun(r) /\ SameChunks) =>
            \A k \in 1..Len(b_chunks) :
                /\ ~SelectedIn(b_runs'[r], b_chunks[k])
                        => RunFields(b_chunks'[k]) = RunFields(b_chunks[k])
                /\ (r > Len(b_runs) /\ SelectedIn(b_runs'[r], b_chunks[k]))
                        => b_chunks'[k].result = "none" /\ b_chunks'[k].error = "none"]_vars

\* A second run, on the first of two chunks only, has ended: the chunk it
\* selected is settled anew, the other one still carries the result of the
\* first run.
C30_Witness ==
    /\ Len(b_runs) = 2 /\ Len(b_chunks) = 2
    /\ b_runs[2].pc = "done" /\ Len(b_runs[2].sel) = 1
    /\ SelectedIn(b_runs[2], b_chunks[1]) /\ ~SelectedIn(b_runs[2], b_chunks[2])
    /\ SelectedIn(b_runs[1], b_chunks[2])
    /\ b_chunks[1].status = "error" /\ b_chunks[1].result = "none"
    /\ ~b_chunks[2].isSelected
    /\ b_chunks[2].status = "completed" /\ b_chunks[2].result = "resp"

\* ------------------------------------------------------------------------
\* Claims about the request of callGoogleAI
\* ------------------------------------------------------------------------

\* The messages that are not system messages, in order.
SpokenMessages ==
    LET kept == {i \in 1..Len(t_messages) : t_messages[i].role # "system"}
        Nth(k) == CHOOSE i \in kept : Cardinality({x \in kept : x <= i}) = k
    IN [k \in 1..Cardinality(kept) |-> t_messages[Nth(k)]]

\* The positions of SpokenMessages where the speaker changes.
TurnStarts ==
    {i \in 1..Len(SpokenMessages) :
        i = 1 \/ geminiRole(SpokenMessages[i]) # geminiRole(SpokenMessages[i - 1])}

TurnStart(k) == CHOOSE s \in TurnStarts : Cardinality({x \in TurnStarts : x <= s}) = k

TurnEnd(k) == IF k = Cardinality(TurnStarts) THEN Len(SpokenMessages) ELSE TurnStart(k + 1) - 1

\* C25: the turns callGoogleAI sends are at least one, each of role user or
\* model (no system message), no two adjacent ones of the same role; and
\* when the list has messages other than system messages, there is one turn
\* per run of messages of one speaker, whose text is the contents of the
\* run, in order, joined by blank lines.
C25_TurnsAlternate ==
    t_request.sent =>
        LET turns == t_request.contents
        IN /\ Len(turns) > 0
           /\ \A k \in 1..Len(turns) : turns[k].role \in {"user", "model"}
           /\ \A k \in 1..(Len(turns) - 1) : turns[k].role # turns[k + 1].role
           /\ SpokenMessages # <<>> =>
                /\ Len(turns) = Cardinality(TurnStarts)
                /\ \A k \in 1..Len(turns) :
                    /\ turns[k].role = geminiRole(SpokenMessages[TurnStart(k)])
                    /\ turns[k].text =
                         join([i \in 1..(TurnEnd(k) - TurnStart(k) + 1) |->
                                   SpokenMessages[TurnStart(k) + i - 1].content],
                              TurnSeparator)

\* Two user messages with a system message between them were sent as one
\* turn that holds both contents.
C25_Witness ==
    /\ t_request.sent
    /\ Len(t_messages) = 3
    /\ t_messages[1].role = "user" /\ t_messages[2].role = "system" /\ t_messages[3].role = "user"
    /\ t_messages[1].content = <<"a">> /\ t_messages[3].content = <<"b">>
    /\ t_request.contents = <<[role |-> "user", text |-> <<"a", "\n", "\n", "b">>]>>

\* ------------------------------------------------------------------------
\* Claims about the edits of the ledgers
\* ------------------------------------------------------------------------

\* C22: an undo that follows an edit of the merged ledger (a cell update or
\* an added transaction) gives the merged ledger back as it was before the
\* edit.
C22_UndoRestoresLedger ==
    [][(l_last.name \in {"edit", "add"} /\ l_last'.name = "undo")
            => m_mergedResult' = l_last.before]_vars

UserEdits == {"edit", "chunk edit", "add", "undo"}

\* C26: no edit of the user changes the result of a completed chunk.
C26_ChunkResultImmutable ==
    [][l_last'.name \in UserEdits =>
            \A k \in 1..Len(m_chunks) :
                m_chunks[k].status = "completed" => m_chunks'[k].result = m_chunks[k].result]_vars

\* ------------------------------------------------------------------------
\* Claims about the strategy of the splitting
\* ------------------------------------------------------------------------

\* C28: the chunks handleExtractText stores are the ones the strategy it
\* recommends for the line count, and stores as the selected strategy, gives.
C28_SplitUsesRecommendedStrategy ==
    c_split =>
        /\ c_chunkStrategy = c_recommendedStrategy
        /\ c_chunks = finalChunks(c_images, c_allLines, c_recommendedStrategy)

\* ------------------------------------------------------------------------
\* Claims about handleSubmit of the single-document App
\* ------------------------------------------------------------------------

\* The first call the App ever made is a handleSubmit that awaits
\* processStatement, and the loading state it set still stands: nothing was
\* cancelled since.
FirstSubmitAwaits ==
    /\ a_started = 1
    /\ Len(a_calls) = 1 /\ a_calls[1].kind = "submit"
    /\ a_loadingState = "processing"

\* C29: when processStatement settles and nothing was cancelled, the parsed
\* ledger is stored as result and as the one entry of the history, or, if
\* it failed, the error is shown; and the loading state returns to idle.
C29_SubmitStoresAndEndsIdle ==
    /\ [][(FirstSubmitAwaits /\ a_calls' = <<>>)
            => \/ a_result' = "data" /\ a_history' = <<"data">>
               \/ a_error' = "process"]_vars
    /\ (FirstSubmitAwaits ~> a_loadingState = "idle")

====
